---- MODULE Spec2Model ----
(***************************************************************************)
(* Content script of the browser-use plugin: the AXTreeManager (handle     *)
(* registry and the two capture traversals), the inspection panel's        *)
(* refresh, and the handle-based action executor, over a small live        *)
(* document that the page may mutate between requests.                     *)
(* Background service worker: the connection to the native host with its  *)
(* reconnection timers and heartbeat, and the relay of the host's requests *)
(* to the tab.                                                             *)
(***************************************************************************)
EXTENDS Integers, Sequences, FiniteSets, Bags, TLC

\* ---------------------------------------------------------------- bounds
\* Number of elements of the document, document.body included.
MaxNodes == 3
\* Number of mutations the page applies to the document in one behaviour.
MaxMutations == 1
\* Number of request messages delivered to the tab and not yet dispatched.
MaxPending == 2
\* Number of native-host port objects that exist or are referred to at the
\* same time.
MaxPorts == 2
\* Number of reconnection timers pending at the same time.
MaxTimers == 2
\* Number of requests the native host sends in one behaviour.
MaxRequests == 1
\* Interval timers counted one by one; MaxIntervals stands for that many or more.
MaxIntervals == 2

\* ------------------------------------------------------------- documents
\* Elements are numbered in document order; element 1 is document.body.
Elements == 1..MaxNodes
body == 1
NoElement == 0

\* What an element is: tag, computed role ("" when getRole yields null),
\* explicit tab stop, click handler, aria-label attribute ("" when absent),
\* the name computeAccessibleName gives it and the name getFallbackName
\* finds for it ("" when there is none).
Kind(tagName, role, hasTabindex, isClickable, ariaLabel, accessibleName, fallbackName) ==
    [tagName |-> tagName, role |-> role, hasTabindex |-> hasTabindex,
     isClickable |-> isClickable, ariaLabel |-> ariaLabel,
     accessibleName |-> accessibleName, fallbackName |-> fallbackName]

ElementKinds ==
    { Kind("DIV",    "",        FALSE, FALSE, "",     "",     ""),
      Kind("DIV",    "",        FALSE, FALSE, "Card", "",     ""),
      Kind("DIV",    "",        FALSE, TRUE,  "",     "",     ""),
      Kind("BUTTON", "button",  FALSE, FALSE, "",     "Save", ""),
      Kind("INPUT",  "textbox", FALSE, FALSE, "",     "",     "Email") }

BodyKind == Kind("BODY", "", FALSE, FALSE, "", "", "")

\* Elements whose labels come from more than one place.  On top of the
\* fields of Kind: labelledBy, the joined text of the elements aria-labelledby
\* refers to; dataLabel, the value of the data-label attribute; siblingLabel,
\* the text of the label-like sibling the walk through five ancestor levels
\* finds; heading, the text of the first h1..h6 below the element.  In these
\* kinds fallbackName is what the strategies from the placeholder on find.
\* A field that is left out is "".
InteractiveNameKinds ==
    { Kind("BUTTON", "button", FALSE, FALSE, "", a, f) @@ [dataLabel |-> dl, siblingLabel |-> sl] :
        a \in {"", "Save"}, f \in {"", "Hint"}, dl \in {"", "Field"}, sl \in {"", "Label"} }

GroupNameKinds ==
    { Kind("DIV", "", FALSE, FALSE, al, "", "") @@ [labelledBy |-> lb, dataLabel |-> dl, heading |-> h] :
        al \in {"", "Card"}, lb \in {"", "Ref"}, dl \in {"", "Field"}, h \in {"", "Head"} }
    \cup { Kind("FIELDSET", "", FALSE, FALSE, "", "", "") @@ [legend |-> lg, heading |-> h] :
        lg \in {"", "Legend"}, h \in {"", "Head"} }

\* Names of 80, 81 and 100 units.
Name10 == "abcdefghij"
Name80 == Name10 \o Name10 \o Name10 \o Name10 \o Name10 \o Name10 \o Name10 \o "ABCDEFGHIJ"
Name81 == Name80 \o "K"
Name100 == Name81 \o "LMNOPQRST" \o Name10

\* Element kinds with names and labels around the length limit, an explicit
\* tab stop, and a vector-graphics primitive carrying a click handler.
OutputKinds ==
    { Kind("DIV",    "",        FALSE, FALSE, "",     "",      ""),
      Kind("DIV",    "",        FALSE, FALSE, "Card", "",      ""),
      Kind("DIV",    "",        FALSE, FALSE, Name81, "",      ""),
      Kind("DIV",    "",        FALSE, TRUE,  "",     "",      ""),
      Kind("BUTTON", "button",  FALSE, FALSE, "",     Name80,  ""),
      Kind("BUTTON", "button",  FALSE, FALSE, "",     "",      Name81),
      Kind("SPAN",   "",        TRUE,  FALSE, "",     Name100, ""),
      Kind("PATH",   "",        FALSE, TRUE,  "",     "",      ""),
      Kind("INPUT",  "textbox", FALSE, FALSE, "",     "",      "Email") }

\* The ways the page can hide an element.
HideCauses == {"display", "visibility", "aria-hidden"}

VARIABLES
    parent,      \* parent[e]: parent element of e, NoElement when e has none
    kind,        \* kind[e]: what element e is
    hiddenBy,    \* hiddenBy[e]: "" or the cause that hides e
    value,       \* value[e]: the element's value property
    mutations,   \* mutations applied so far
    elementMap,  \* AXTreeManager.elementMap : handle -> element
    counter,     \* AXTreeManager.counter
    issued,      \* history: handle -> elements it was ever bound to
    reply,       \* the request being answered: call, response, platform calls
    inbox,       \* request messages delivered to the tab, not yet dispatched
    running,     \* activations of the listener that have started and not ended
    held         \* the handles a client keeps from a capture: handle -> element

\* The background service worker.
VARIABLES
    nativePort,          \* let nativePort: NoPort (null) or the port it refers to
    connectionAttempts,  \* let connectionAttempts
    isConnecting,        \* let isConnecting
    ports,               \* ports[p]: "free", "open", or "closing" (closed by the
                         \* host's side, its onDisconnect listener not yet run)
    timers,              \* bag of the delays of the pending setTimeout(connectNativeHost, delay)
    heartbeat,           \* the number of intervals startHeartbeat has set and nothing
                         \* has cleared; the alarm 'heartbeat' exists once it is positive
    pinged,              \* a PING has been posted and its PONG has not come
    failures,            \* history: failed attempts and disconnects since the last
                         \* connection was made
    pc,                  \* the worker's position: where its running call stands
    requests,            \* requests[id]: the request of the native host and how
                         \* far handleNativeMessage has come with it
    posted               \* posted[id]: the messages posted to the host for id

worker == <<nativePort, connectionAttempts, isConnecting, ports, timers, heartbeat, pinged,
            failures, pc, requests, posted>>

vars == <<parent, kind, hiddenBy, value, mutations, elementMap, counter, issued, reply,
          inbox, running, held, worker>>

\* nativePort = null.
NoPort == 0
PortIds == 1..MaxPorts
\* The ids of the requests of the native host.
RequestIds == 1..MaxRequests
NoRequest == [at |-> "none"]

\* The service worker when its script starts to run: the let declarations,
\* no port, no timer, no alarm, the call of connectNativeHost that ends the
\* script still to come.
WorkerInit ==
    /\ nativePort = NoPort
    /\ connectionAttempts = 0
    /\ isConnecting = FALSE
    /\ ports = [p \in PortIds |-> "free"]
    /\ timers = EmptyBag
    /\ heartbeat = 0
    /\ pinged = FALSE
    /\ failures = 0
    /\ pc = "load"
    /\ requests = [id \in RequestIds |-> NoRequest]
    /\ posted = [id \in RequestIds |-> <<>>]

\* The document as one value, for the traversals.
Doc == [parent |-> parent, kind |-> kind, hiddenBy |-> hiddenBy, value |-> value]

\* element.children, in document order.
RECURSIVE SortedSeq(_)
SortedSeq(S) ==
    IF S = {} THEN <<>>
    ELSE LET m == CHOOSE x \in S : \A y \in S : x <= y
         IN <<m>> \o SortedSeq(S \ {m})

Children(d, e) == SortedSeq({c \in DOMAIN d.parent : d.parent[c] = e})

\* e is body or below it (Node.isConnected).
RECURSIVE IsConnected(_, _)
IsConnected(d, e) ==
    IF e = body THEN TRUE
    ELSE IF d.parent[e] = NoElement THEN FALSE
    ELSE IsConnected(d, d.parent[e])

\* Ancestors of e, e excluded.
RECURSIVE Ancestors(_, _)
Ancestors(d, e) ==
    IF e = NoElement \/ d.parent[e] = NoElement THEN {}
    ELSE {d.parent[e]} \cup Ancestors(d, d.parent[e])

\* Parent functions under which the numbering 1..MaxNodes is document
\* (pre-)order: the parent of e is e-1 or an ancestor of e-1.
RECURSIVE AncestorsOrSelfIn(_, _)
AncestorsOrSelfIn(p, e) ==
    IF e = NoElement THEN {} ELSE {e} \cup AncestorsOrSelfIn(p, p[e])

DocumentShapes ==
    { p \in [Elements -> {NoElement} \cup Elements] :
        /\ p[body] = NoElement
        /\ \A e \in Elements \ {body} : p[e] # NoElement /\ p[e] < e
        /\ \A e \in Elements \ {body} : p[e] \in AncestorsOrSelfIn(p, e - 1) }

\* ------------------------------------------------------- AXTreeManager
EmptyMap == <<>>

\* Map.set
MapSet(m, k, v) == [x \in DOMAIN m \cup {k} |-> IF x = k THEN v ELSE m[x]]

\* IsHidden with the aria-hidden test left out.
IsHidden_NoAria(d, e) ==
    \/ d.hiddenBy[e] = "display"
    \/ d.hiddenBy[e] = "visibility"

\* The exclusion test at the head of both traversals: computed display
\* none, computed visibility hidden, or aria-hidden="true".
IsHidden(d, e) ==
    \/ d.hiddenBy[e] = "display"
    \/ d.hiddenBy[e] = "visibility"
    \/ d.hiddenBy[e] = "aria-hidden"

svgSkip == {"PATH", "G", "DEFS", "CLIPPATH", "LINEARGRADIENT", "RADIALGRADIENT", "STOP",
            "MASK", "USE", "SYMBOL", "CIRCLE", "RECT", "ELLIPSE", "LINE", "POLYGON",
            "POLYLINE", "TEXT", "TSPAN", "STYLE"}

interactiveRoles == {"button", "link", "textbox", "checkbox", "radio", "combobox", "listbox",
                     "option", "menuitem", "menuitemcheckbox", "menuitemradio", "tab",
                     "switch", "slider", "spinbutton", "searchbox", "scrollbar", "progressbar"}

\* isInteractiveElement looking at the role only.
isInteractiveElement_RoleOnly(d, e) ==
    d.kind[e].role # "" /\ d.kind[e].role \in interactiveRoles

\* isInteractive || hasTabindex || isClickable
isInteractiveElement(d, e) ==
    \/ d.kind[e].role # "" /\ d.kind[e].role \in interactiveRoles
    \/ d.kind[e].hasTabindex
    \/ d.kind[e].isClickable

\* getSemanticLabel finding no label.
getSemanticLabel_None(d, e) == ""

\* An attribute or text of a kind, "" when the kind does not carry it.
Attr(k, field) == IF field \in DOMAIN k THEN k[field] ELSE ""

\* The first non-empty string of a list, "" when there is none: a || b || ...
RECURSIVE FirstNonEmpty(_)
FirstNonEmpty(names) ==
    IF names = <<>> THEN ""
    ELSE IF Head(names) # "" THEN Head(names)
    ELSE FirstNonEmpty(Tail(names))

\* getSemanticLabel: aria-label || getAriaLabelledByText || extractDataLabel
\* || getLegendText (of a fieldset) || getHeadingText || null.
getSemanticLabel(d, e) ==
    LET k == d.kind[e]
    IN FirstNonEmpty(<< Attr(k, "ariaLabel"), Attr(k, "labelledBy"), Attr(k, "dataLabel"),
                        IF k.tagName = "FIELDSET" THEN Attr(k, "legend") ELSE "",
                        Attr(k, "heading") >>)

\* const MAX_NAME_LENGTH = 80
MAX_NAME_LENGTH == 80

\* truncateName cutting at the limit before it appends the marker.
truncateName_CutAtLimit(name) ==
    IF name = "" THEN ""
    ELSE IF Len(name) <= MAX_NAME_LENGTH THEN name
    ELSE SubSeq(name, 1, MAX_NAME_LENGTH) \o "..."

\* truncateName; "" stands for undefined as well as for the empty name.
truncateName(name) ==
    IF name = "" THEN ""
    ELSE IF Len(name) <= MAX_NAME_LENGTH THEN name
    ELSE SubSeq(name, 1, MAX_NAME_LENGTH - 3) \o "..."

\* element.getAttribute(attr) || element.closest(`[${attr}]`).getAttribute(attr)
\* for the label data attributes: the element's own, else the nearest
\* ancestor's.
RECURSIVE closestDataLabel(_, _)
closestDataLabel(d, e) ==
    IF e = NoElement THEN ""
    ELSE IF Attr(d.kind[e], "dataLabel") # "" THEN Attr(d.kind[e], "dataLabel")
    ELSE closestDataLabel(d, d.parent[e])

\* getFallbackName: the label data attributes, then the label-like sibling,
\* then the placeholder, the title and the strategies by tag.
getFallbackName(d, e) ==
    FirstNonEmpty(<< closestDataLabel(d, e), Attr(d.kind[e], "siblingLabel"),
                     d.kind[e].fallbackName >>)

\* The name taken from the fallback strategies before the computed name.
resolveName_FallbackFirst(d, e) ==
    IF getFallbackName(d, e) # "" THEN getFallbackName(d, e)
    ELSE d.kind[e].accessibleName

\* let name = computeAccessibleName(element); if (!name) name = getFallbackName(element)
resolveName(d, e) ==
    IF d.kind[e].accessibleName # "" THEN d.kind[e].accessibleName
    ELSE getFallbackName(d, e)

\* A node property that is left out when undefined.
Optional(field, v) == IF v = "" THEN <<>> ELSE [x \in {field} |-> v]

\* role || 'generic', role || 'group'
RoleOr(d, e, dflt) == IF d.kind[e].role # "" THEN d.kind[e].role ELSE dflt

\* A traversal threads the manager's state: st = [counter, elementMap].
\* buildSemanticTree returns the contributed nodes and the state after it.
RECURSIVE buildSemanticTree(_, _, _), buildSemanticChildren(_, _, _)
buildSemanticChildren(d, kids, st) ==
    IF kids = <<>> THEN [nodes |-> <<>>, counter |-> st.counter, elementMap |-> st.elementMap]
    ELSE LET first == buildSemanticTree(d, Head(kids), st)
             rest  == buildSemanticChildren(d, Tail(kids),
                          [counter |-> first.counter, elementMap |-> first.elementMap])
         IN [nodes |-> first.nodes \o rest.nodes,
             counter |-> rest.counter, elementMap |-> rest.elementMap]

buildSemanticTree(d, element, st) ==
    IF IsHidden(d, element) \/ d.kind[element].tagName \in svgSkip
    THEN [nodes |-> <<>>, counter |-> st.counter, elementMap |-> st.elementMap]
    ELSE
      LET sub      == buildSemanticChildren(d, Children(d, element), st)
          children == sub.nodes
      IN IF isInteractiveElement(d, element)
         THEN LET refId == sub.counter + 1
                  base  == [refId   |-> refId,
                            role    |-> RoleOr(d, element, "generic"),
                            tagName |-> d.kind[element].tagName]
                           @@ Optional("name", truncateName(resolveName(d, element)))
                           @@ Optional("value", d.value[element])
                  node  == IF Len(children) > 0
                           THEN base @@ [children |-> children]
                           ELSE base
              IN [nodes |-> <<node>>, counter |-> refId,
                  elementMap |-> MapSet(sub.elementMap, refId, element)]
         ELSE IF getSemanticLabel(d, element) # "" /\ Len(children) > 0
         THEN [nodes |-> << [role |-> RoleOr(d, element, "group"),
                             name |-> truncateName(getSemanticLabel(d, element)),
                             children |-> children] >>,
               counter |-> sub.counter, elementMap |-> sub.elementMap]
         ELSE [nodes |-> children, counter |-> sub.counter, elementMap |-> sub.elementMap]

\* captureTree without "this.counter = 0".
captureTree_NoReset(d, root, mgr) ==
    LET built    == buildSemanticTree(d, root, [counter |-> mgr.counter, elementMap |-> EmptyMap])
        children == built.nodes
    IN [data |-> IF Len(children) = 0 THEN [role |-> "null"]
                 ELSE IF Len(children) = 1 THEN children[1]
                 ELSE [role |-> "tree", children |-> children],
        counter |-> built.counter, elementMap |-> built.elementMap]

\* captureTree without "if (children.length === 0) return null".
captureTree_NoNull(d, root, mgr) ==
    LET built    == buildSemanticTree(d, root, [counter |-> 0, elementMap |-> EmptyMap])
        children == built.nodes
    IN [data |-> IF Len(children) = 1 THEN children[1]
                 ELSE [role |-> "tree", children |-> children],
        counter |-> built.counter, elementMap |-> built.elementMap]

\* captureTree wrapping whatever was contributed in the root.
captureTree_AlwaysRoot(d, root, mgr) ==
    LET built == buildSemanticTree(d, root, [counter |-> 0, elementMap |-> EmptyMap])
    IN [data |-> [role |-> "tree", children |-> built.nodes],
        counter |-> built.counter, elementMap |-> built.elementMap]

\* captureTree on a manager in state mgr = [counter, elementMap]: clear,
\* reset, traverse, wrap.  data = NullTree stands for null.
NullTree == [role |-> "null"]
captureTree(d, root, mgr) ==
    LET built    == buildSemanticTree(d, root, [counter |-> 0, elementMap |-> EmptyMap])
        children == built.nodes
    IN [data |-> IF Len(children) = 0 THEN NullTree
                 ELSE IF Len(children) = 1 THEN children[1]
                 ELSE [role |-> "tree", children |-> children],
        counter |-> built.counter, elementMap |-> built.elementMap]

\* collectInteractiveElements appends to result and threads the state.
RECURSIVE collectInteractiveElements(_, _, _), collectInteractiveChildren(_, _, _)
collectInteractiveChildren(d, kids, st) ==
    IF kids = <<>> THEN st
    ELSE collectInteractiveChildren(d, Tail(kids),
             collectInteractiveElements(d, Head(kids), st))

collectInteractiveElements(d, element, st) ==
    IF IsHidden(d, element) \/ d.kind[element].tagName \in svgSkip
    THEN st
    ELSE
      LET own == IF isInteractiveElement(d, element)
                 THEN LET refId == st.counter + 1
                          truncatedName == truncateName(resolveName(d, element))
                      IN [result |-> Append(st.result,
                                        IF d.value[element] # ""
                                        THEN <<refId, RoleOr(d, element, "generic"),
                                               truncatedName, d.value[element]>>
                                        ELSE <<refId, RoleOr(d, element, "generic"),
                                               truncatedName>>),
                          counter |-> refId,
                          elementMap |-> MapSet(st.elementMap, refId, element)]
                 ELSE st
      IN collectInteractiveChildren(d, Children(d, element), own)

\* captureCompactTree without "this.counter = 0".
captureCompactTree_NoReset(d, root, mgr) ==
    LET st == collectInteractiveElements(d, root,
                  [result |-> <<>>, counter |-> mgr.counter, elementMap |-> EmptyMap])
    IN [data |-> st.result, counter |-> st.counter, elementMap |-> st.elementMap]

captureCompactTree(d, root, mgr) ==
    LET st == collectInteractiveElements(d, root,
                  [result |-> <<>>, counter |-> 0, elementMap |-> EmptyMap])
    IN [data |-> st.result, counter |-> st.counter, elementMap |-> st.elementMap]

\* The manager the inspection panel was written against: capture / buildTree.
RECURSIVE buildTree(_, _, _), buildTreeChildren(_, _, _)
buildTreeChildren(d, kids, st) ==
    IF kids = <<>> THEN [nodes |-> <<>>, counter |-> st.counter, elementMap |-> st.elementMap]
    ELSE LET first == buildTree(d, Head(kids), st)
             rest  == buildTreeChildren(d, Tail(kids),
                          [counter |-> first.counter, elementMap |-> first.elementMap])
         IN [nodes |-> first.nodes \o rest.nodes,
             counter |-> rest.counter, elementMap |-> rest.elementMap]

buildTree(d, element, st) ==
    IF IsHidden(d, element) \/ d.kind[element].tagName \in svgSkip
    THEN [nodes |-> <<>>, counter |-> st.counter, elementMap |-> st.elementMap]
    ELSE
      LET sub      == buildTreeChildren(d, Children(d, element), st)
          children == sub.nodes
      IN IF ~isInteractiveElement(d, element)
         THEN [nodes |-> children, counter |-> sub.counter, elementMap |-> sub.elementMap]
         ELSE LET refId == sub.counter + 1
                  base  == [refId   |-> refId,
                            role    |-> RoleOr(d, element, "generic"),
                            name    |-> resolveName(d, element),
                            tagName |-> d.kind[element].tagName]
                           @@ Optional("value", d.value[element])
                  node  == IF Len(children) > 0
                           THEN base @@ [children |-> children]
                           ELSE base
              IN [nodes |-> <<node>>, counter |-> refId,
                  elementMap |-> MapSet(sub.elementMap, refId, element)]

\* capture without "this.elementMap.clear()".
capture_NoClear(d, root, mgr) ==
    LET built == buildTree(d, root, [counter |-> 0, elementMap |-> mgr.elementMap])
    IN [data |-> built.nodes, counter |-> built.counter, elementMap |-> built.elementMap]

capture(d, root, mgr) ==
    LET built == buildTree(d, root, [counter |-> 0, elementMap |-> EmptyMap])
    IN [data |-> built.nodes, counter |-> built.counter, elementMap |-> built.elementMap]

\* getElement falling back to the first entry for an unknown handle.
getElement_Fallback(map, refId) ==
    IF refId \in DOMAIN map THEN map[refId]
    ELSE IF 1 \in DOMAIN map THEN map[1] ELSE NoElement

\* getElement looking up refId - 1.
getElement_OffByOne(map, refId) ==
    IF refId - 1 \in DOMAIN map THEN map[refId - 1] ELSE NoElement

\* getElement: Map.get, NoElement for undefined.
getElement(map, refId) == IF refId \in DOMAIN map THEN map[refId] ELSE NoElement

\* ------------------------------------------------------ action executor
ActionTypes == {"click", "type", "focus", "scroll", "hover", "clear", "keypress", "scroll_page"}
\* A type outside the closed set.
OtherType == "drag"
\* refId null / undefined.
NullRef == -1
\* text undefined.
NoText == "<undefined>"
Texts == {"", "hello"}

\* !text taking the empty string for a text.
Falsy_UndefinedOnly(text) == text = NoText

\* !text
Falsy(text) == text = NoText \/ text = ""

Failure(errorKind, message) == [success |-> FALSE, error |-> errorKind, message |-> message]
Success(result) == [success |-> TRUE, result |-> result]
Dispatch(type, target) == [op |-> "dispatchEvent", type |-> type, target |-> target]

\* sendKeypress dispatching keyup before keypress.
sendKeypress_UpBeforePress(key, active) ==
    LET target == IF active # NoElement THEN active ELSE body
    IN [response |-> Success([keypress |-> TRUE, key |-> key, target |-> target]),
        effects  |-> <<Dispatch("keydown", target), Dispatch("keyup", target),
                       Dispatch("keypress", target)>>]

\* sendKeypress without the fallback to document.body.
sendKeypress_NoFallback(key, active) ==
    IF active = NoElement
    THEN [response |-> Failure("ElementNotFound", <<"No focused element">>), effects |-> <<>>]
    ELSE [response |-> Success([keypress |-> TRUE, key |-> key, target |-> active]),
          effects  |-> <<Dispatch("keydown", active), Dispatch("keypress", active),
                         Dispatch("keyup", active)>>]

\* sendKeypress: the triad goes to document.activeElement || document.body.
sendKeypress(key, active) ==
    LET target == IF active # NoElement THEN active ELSE body
    IN [response |-> Success([keypress |-> TRUE, key |-> key, target |-> target]),
        effects  |-> <<Dispatch("keydown", target), Dispatch("keypress", target),
                       Dispatch("keyup", target)>>]

\* case 'click' activating the element twice.
clickCase_Twice(d, element, refId) ==
    [response |-> Success([clicked |-> TRUE, refId |-> refId]),
     effects  |-> << [op |-> "click", target |-> element], [op |-> "click", target |-> element] >>,
     value    |-> d.value]

\* case 'click': htmlElement.click(); return {clicked: true, refId}.
clickCase(d, element, refId) ==
    [response |-> Success([clicked |-> TRUE, refId |-> refId]),
     effects  |-> << [op |-> "click", target |-> element] >>,
     value    |-> d.value]

\* case 'type' without the change event.
typeCase_NoChange(d, element, refId, text) ==
    [response |-> Success([typed |-> TRUE, refId |-> refId, text |-> text]),
     effects  |-> <<Dispatch("input", element)>>,
     value    |-> [d.value EXCEPT ![element] = text]]

\* case 'type' on an INPUT or TEXTAREA: set the value, dispatch input, then
\* change, return {typed: true, refId, text}.
typeCase(d, element, refId, text) ==
    [response |-> Success([typed |-> TRUE, refId |-> refId, text |-> text]),
     effects  |-> <<Dispatch("input", element), Dispatch("change", element)>>,
     value    |-> [d.value EXCEPT ![element] = text]]

\* case 'clear' without the change event.
clearCase_NoChange(d, element, refId) ==
    IF d.kind[element].tagName \in {"INPUT", "TEXTAREA"}
    THEN [response |-> Success([cleared |-> TRUE, refId |-> refId]),
          effects  |-> <<Dispatch("input", element)>>,
          value    |-> [d.value EXCEPT ![element] = ""]]
    ELSE [response |-> Failure("UnsupportedElementForAction",
                               <<"Element", refId, "is not an input or textarea">>),
          effects  |-> <<>>,
          value    |-> d.value]

\* case 'clear' without the test of the tag.
clearCase_AnyElement(d, element, refId) ==
    [response |-> Success([cleared |-> TRUE, refId |-> refId]),
     effects  |-> <<Dispatch("input", element), Dispatch("change", element)>>,
     value    |-> [d.value EXCEPT ![element] = ""]]

\* case 'clear': on an INPUT or TEXTAREA set the value to '', dispatch input,
\* then change, return {cleared: true, refId}; otherwise throw.
clearCase(d, element, refId) ==
    IF d.kind[element].tagName \in {"INPUT", "TEXTAREA"}
    THEN [response |-> Success([cleared |-> TRUE, refId |-> refId]),
          effects  |-> <<Dispatch("input", element), Dispatch("change", element)>>,
          value    |-> [d.value EXCEPT ![element] = ""]]
    ELSE [response |-> Failure("UnsupportedElementForAction",
                               <<"Element", refId, "is not an input or textarea">>),
          effects  |-> <<>>,
          value    |-> d.value]

\* default: returning instead of throwing.
defaultCase_Ignored(d, type) ==
    [response |-> Success([ignored |-> TRUE]), effects |-> <<>>, value |-> d.value]

\* default: throw new Error(`Unknown action type: ${type}`).
defaultCase(d, type) ==
    [response |-> Failure("UnknownActionType", <<"Unknown action type", type>>),
     effects  |-> <<>>,
     value    |-> d.value]

\* executeAction(type, refId, text): the response, the platform calls made
\* (effects) and the element values afterwards.
executeAction(d, map, type, refId, text, active) ==
    LET fail(errorKind, message) ==
            [response |-> Failure(errorKind, message), effects |-> <<>>, value |-> d.value]
    IN
    IF type = "keypress" THEN
        IF Falsy(text) THEN fail("MissingParameter", <<"Key is required for keypress action">>)
        ELSE sendKeypress(text, active) @@ [value |-> d.value]
    ELSE IF type = "scroll_page" THEN
        LET direction == IF Falsy(text) THEN "down" ELSE text
        IN [response |-> Success([scrolled |-> TRUE, direction |-> direction]),
            effects  |-> IF direction \in {"up", "down"}
                         THEN << [op |-> "scrollBy", direction |-> direction] >>
                         ELSE IF direction \in {"top", "bottom"}
                         THEN << [op |-> "scrollTo", direction |-> direction] >>
                         ELSE <<>>,
            value    |-> d.value]
    ELSE IF refId = NullRef THEN
        fail("MissingParameter", <<"refId is required for action type", type>>)
    ELSE
    LET element == getElement(map, refId)
        isTextEntry == d.kind[element].tagName \in {"INPUT", "TEXTAREA"}
    IN
    IF element = NoElement THEN
        fail("ElementNotFound", <<"Element with refId", refId, "not found">>)
    ELSE IF type = "click" THEN clickCase(d, element, refId)
    ELSE IF type = "type" THEN
        IF Falsy(text) THEN fail("MissingParameter", <<"Text is required for type action">>)
        ELSE IF isTextEntry THEN typeCase(d, element, refId, text)
        ELSE fail("UnsupportedElementForAction", <<"Element", refId, "is not an input or textarea">>)
    ELSE IF type = "focus" THEN
        [response |-> Success([focused |-> TRUE, refId |-> refId]),
         effects  |-> << [op |-> "focus", target |-> element] >>,
         value    |-> d.value]
    ELSE IF type = "scroll" THEN
        [response |-> Success([scrolled |-> TRUE, refId |-> refId]),
         effects  |-> << [op |-> "scrollIntoView", target |-> element] >>,
         value    |-> d.value]
    ELSE IF type = "hover" THEN
        [response |-> Success([hovered |-> TRUE, refId |-> refId]),
         effects  |-> <<Dispatch("mouseenter", element), Dispatch("mouseover", element)>>,
         value    |-> d.value]
    ELSE IF type = "clear" THEN clearCase(d, element, refId)
    ELSE defaultCase(d, type)

\* --------------------------------------------------------------- page text
\* params.maxLength absent, params.selector absent.
NoMaxLength == -1
NoSelector == "<null>"
\* params.maxLength || 8000
DefaultMaxLength == 8000
\* Selectors a request may carry: none, one the document may match, and one
\* that is not a valid selector, on which document.querySelector throws.
InvalidSelectors == {"##"}
Selectors == {NoSelector, "#main"} \cup InvalidSelectors
MaxLengths == {NoMaxLength, 5}
\* The cleaned text of the content root when the request arrives.
PageTexts == {"", "Inbox", "Inbox (3)"}

\* extractPageText(selector, maxLength), fullText being the joined and
\* cleaned text of the content root: thrown SyntaxError of querySelector, or
\* {text, truncated}.
extractPageText(selector, maxLength, fullText) ==
    IF selector \in InvalidSelectors
    THEN Failure("SyntaxError", <<"not a valid selector", selector>>)
    ELSE LET truncated == Len(fullText) > maxLength
         IN [success |-> TRUE,
             data |-> [text |-> IF truncated THEN SubSeq(fullText, 1, maxLength) \o "..."
                                ELSE fullText,
                       truncated |-> truncated]]

\* ------------------------------------------------------ message listener
\* A handler of the listener without its catch clause: the error of the try block
\* leaves the listener and nothing is sent.
onMessage_NoCatch(outcome) ==
    IF outcome.success
    THEN [sent |-> <<outcome>>, escaped |-> FALSE]
    ELSE [sent |-> <<>>, escaped |-> TRUE]

\* One handler of the listener: try { sendResponse({success: true, ...}) }
\* catch (e) { sendResponse({success: false, error: String(e)}) }.  outcome is
\* what the try block computed: a payload (success) or the error it threw.
\* sent lists the sendResponse calls, escaped tells whether an error left
\* the listener.
onMessage(outcome) ==
    IF outcome.success
    THEN [sent |-> <<outcome>>, escaped |-> FALSE]
    ELSE [sent |-> << [success |-> FALSE, error |-> outcome.error, message |-> outcome.message] >>,
          escaped |-> FALSE]

\* ------------------------------------------------------------ behaviour
NoReply == [action |-> "none"]

Issue(map) == issued \cup DOMAIN map

Init ==
    /\ parent \in DocumentShapes
    /\ kind \in { k \in [Elements -> ElementKinds \cup {BodyKind}] :
                     /\ k[body] = BodyKind
                     /\ \A e \in Elements \ {body} : k[e] \in ElementKinds }
    /\ hiddenBy = [e \in Elements |-> ""]
    /\ value = [e \in Elements |-> ""]
    /\ mutations = 0
    /\ elementMap = EmptyMap
    /\ counter = 0
    /\ issued = {}
    /\ reply = NoReply
    /\ inbox = <<>>
    /\ running = <<>>
    /\ held = <<>>
    /\ WorkerInit

\* The page hides an element (style or aria-hidden attribute).
PageHides(e, cause) ==
    /\ reply = NoReply
    /\ mutations < MaxMutations
    /\ hiddenBy[e] = ""
    /\ hiddenBy' = [hiddenBy EXCEPT ![e] = cause]
    /\ mutations' = mutations + 1
    /\ UNCHANGED <<parent, kind, value, elementMap, counter, issued, reply, inbox, running, held, worker>>

\* The page removes an element (with its subtree) from the document.
PageRemoves(e) ==
    /\ reply = NoReply
    /\ mutations < MaxMutations
    /\ e # body
    /\ parent[e] # NoElement
    /\ parent' = [parent EXCEPT ![e] = NoElement]
    /\ mutations' = mutations + 1
    /\ UNCHANGED <<kind, hiddenBy, value, elementMap, counter, issued, reply, inbox, running, held, worker>>

\* Message GET_AX_TREE.
GetAxTree ==
    /\ reply = NoReply
    /\ LET r == captureTree(Doc, body, [counter |-> counter, elementMap |-> elementMap])
       IN /\ elementMap' = r.elementMap
          /\ counter' = r.counter
          /\ issued' = Issue(r.elementMap)
          /\ reply' = [action |-> "GET_AX_TREE", success |-> TRUE, data |-> r.data]
                       @@ onMessage([success |-> TRUE, data |-> r.data])
    /\ UNCHANGED <<parent, kind, hiddenBy, value, mutations, inbox, running, held, worker>>

\* Message GET_AX_TREE_COMPACT.
GetAxTreeCompact ==
    /\ reply = NoReply
    /\ LET r == captureCompactTree(Doc, body, [counter |-> counter, elementMap |-> elementMap])
       IN /\ elementMap' = r.elementMap
          /\ counter' = r.counter
          /\ issued' = Issue(r.elementMap)
          /\ reply' = [action |-> "GET_AX_TREE_COMPACT", success |-> TRUE,
                       data |-> r.data, count |-> Len(r.data)]
                       @@ onMessage([success |-> TRUE, data |-> r.data, count |-> Len(r.data)])
    /\ UNCHANGED <<parent, kind, hiddenBy, value, mutations, inbox, running, held, worker>>

\* Sidebar.refresh (panel shown, or its Refresh button).
SidebarRefresh ==
    /\ reply = NoReply
    /\ LET r == capture(Doc, body, [counter |-> counter, elementMap |-> elementMap])
       IN /\ elementMap' = r.elementMap
          /\ counter' = r.counter
          /\ issued' = Issue(r.elementMap)
          /\ reply' = [action |-> "SIDEBAR_REFRESH", nodes |-> r.data]
    /\ UNCHANGED <<parent, kind, hiddenBy, value, mutations, inbox, running, held, worker>>

\* The texts a request of this type is issued with (text is read by type,
\* keypress and scroll_page only).
TextsFor(type) == IF type \in {"type", "keypress", "scroll_page"} THEN Texts \cup {NoText} ELSE {NoText}
\* document.activeElement is read by keypress only.
ActiveFor(type, text) ==
    IF type = "keypress" /\ ~Falsy(text) THEN {NoElement} \cup Elements ELSE {NoElement}

\* Message EXECUTE_ACTION whose lookup consumes the registry entry it finds.
ExecuteAction_Evicts(type, refId, text, active) ==
    /\ reply = NoReply
    /\ LET r == executeAction(Doc, elementMap, type, refId, text, active)
       IN /\ value' = r.value
          /\ reply' = [action |-> "EXECUTE_ACTION", type |-> type, refId |-> refId,
                       text |-> text, active |-> active,
                       stale |-> refId \in issued /\ refId \notin DOMAIN elementMap,
                       response |-> r.response, effects |-> r.effects]
                       @@ onMessage(r.response)
    /\ elementMap' = [id \in DOMAIN elementMap \ {refId} |-> elementMap[id]]
    /\ UNCHANGED <<parent, kind, hiddenBy, mutations, counter, issued, inbox, running, held, worker>>

\* Message EXECUTE_ACTION {type, refId, text}.
ExecuteAction(type, refId, text, active) ==
    /\ reply = NoReply
    /\ LET r == executeAction(Doc, elementMap, type, refId, text, active)
       IN /\ value' = r.value
          /\ reply' = [action |-> "EXECUTE_ACTION", type |-> type, refId |-> refId,
                       text |-> text, active |-> active,
                       stale |-> refId \in issued /\ refId \notin DOMAIN elementMap,
                       response |-> r.response, effects |-> r.effects]
                       @@ onMessage(r.response)
    /\ UNCHANGED <<parent, kind, hiddenBy, mutations, elementMap, counter, issued, inbox, running, held, worker>>

\* Message GET_PAGE_TEXT {selector, maxLength}.
GetPageText(selector, maxLength, fullText) ==
    /\ reply = NoReply
    /\ reply' = [action |-> "GET_PAGE_TEXT", selector |-> selector, maxLength |-> maxLength,
                 fullText |-> fullText]
                 @@ onMessage(extractPageText(selector,
                        IF maxLength = NoMaxLength \/ maxLength = 0
                        THEN DefaultMaxLength ELSE maxLength,
                        fullText))
    /\ UNCHANGED <<parent, kind, hiddenBy, value, mutations, elementMap, counter, issued, inbox, running, held, worker>>

\* The response has been sent; the content script waits for the next event.
Done ==
    /\ reply # NoReply
    /\ reply' = NoReply
    /\ UNCHANGED <<parent, kind, hiddenBy, value, mutations, elementMap, counter, issued, inbox, running, held, worker>>

Capture == GetAxTree \/ GetAxTreeCompact \/ SidebarRefresh

Request ==
    \E type \in ActionTypes \cup {OtherType}, refId \in {NullRef} \cup Elements :
       \E text \in TextsFor(type) : \E active \in ActiveFor(type, text) :
          ExecuteAction(type, refId, text, active)

\* Captures of a document the page keeps changing.
NextCapture ==
    \/ \E e \in Elements, cause \in HideCauses : PageHides(e, cause)
    \/ \E e \in Elements : PageRemoves(e)
    \/ Capture
    \/ Done

SpecCapture == Init /\ [][NextCapture]_vars

\* Captures and action requests.  The executor reads the registry and the
\* bound element only, never the element's style, and hiding an element
\* withdraws the same subtree from a capture as removing it does: the page's
\* changes are its removals here.
NextAction ==
    \/ \E e \in Elements : PageRemoves(e)
    \/ Capture
    \/ Request
    \/ Done

SpecAction == Init /\ [][NextAction]_vars

PageText ==
    \E selector \in Selectors, maxLength \in MaxLengths, fullText \in PageTexts :
        GetPageText(selector, maxLength, fullText)

\* The four request messages the listener answers, on a document at rest.
NextMessages ==
    \/ GetAxTree
    \/ GetAxTreeCompact
    \/ PageText
    \/ Request
    \/ Done

SpecMessages == Init /\ [][NextMessages]_vars

\* A document whose elements carry names and labels around the length
\* limit, some of them hidden by the page's style sheet when it loads.
InitOutput ==
    /\ parent \in DocumentShapes
    /\ kind \in { k \in [Elements -> OutputKinds \cup {BodyKind}] :
                     /\ k[body] = BodyKind
                     /\ \A e \in Elements \ {body} : k[e] \in OutputKinds }
    /\ hiddenBy \in { h \in [Elements -> {"", "display"}] : h[body] = "" }
    /\ value = [e \in Elements |-> ""]
    /\ mutations = 0
    /\ elementMap = EmptyMap
    /\ counter = 0
    /\ issued = {}
    /\ reply = NoReply
    /\ inbox = <<>>
    /\ running = <<>>
    /\ held = <<>>
    /\ WorkerInit

\* The two capture messages.
NextOutput ==
    \/ GetAxTree
    \/ GetAxTreeCompact
    \/ Done

SpecOutput == InitOutput /\ [][NextOutput]_vars

\* A document that is one chain: a container below the body and interactive
\* elements nested below it, each with its own combination of label sources.
InitNames ==
    /\ parent = [e \in Elements |-> e - 1]
    /\ kind \in { k \in [Elements -> GroupNameKinds \cup InteractiveNameKinds \cup {BodyKind}] :
                     /\ k[body] = BodyKind
                     /\ k[2] \in GroupNameKinds
                     /\ \A e \in Elements \ {body, 2} : k[e] \in InteractiveNameKinds }
    /\ hiddenBy = [e \in Elements |-> ""]
    /\ value = [e \in Elements |-> ""]
    /\ mutations = 0
    /\ elementMap = EmptyMap
    /\ counter = 0
    /\ issued = {}
    /\ reply = NoReply
    /\ inbox = <<>>
    /\ running = <<>>
    /\ held = <<>>
    /\ WorkerInit

SpecNames == InitNames /\ [][NextOutput]_vars

\* The client keeps the handles of the capture it has just been answered.
Remember ==
    /\ reply # NoReply
    /\ reply.action \in {"GET_AX_TREE", "GET_AX_TREE_COMPACT"}
    /\ held' = elementMap
    /\ reply' = NoReply
    /\ UNCHANGED <<parent, kind, hiddenBy, value, mutations, elementMap, counter, issued,
                   inbox, running, worker>>

\* The client acts through a handle.
HandleRequest ==
    \E type \in {"click", "type"}, refId \in Elements :
        ExecuteAction(type, refId, IF type = "type" THEN "hello" ELSE NoText, NoElement)

\* A client that captures, keeps the handles, and acts through handles while
\* the page changes and further captures are made.
NextHandles ==
    \/ \E e \in Elements : PageRemoves(e)
    \/ GetAxTree
    \/ GetAxTreeCompact
    \/ Remember
    \/ HandleRequest
    \/ Done

SpecHandles == Init /\ [][NextHandles]_vars

\* ------------------------------------------------------------ event loop
\* Request messages that reach the listener of the tab; several can be in
\* flight, the background's handleNativeMessage awaiting each answer on its
\* own.
Messages ==
    { [action |-> "GET_AX_TREE"], [action |-> "GET_AX_TREE_COMPACT"],
      [action |-> "EXECUTE_ACTION", type |-> "click", refId |-> 1] }

CaptureActions == {"GET_AX_TREE", "GET_AX_TREE_COMPACT"}

\* Points of a handler at which it would hand control back to the event
\* loop before it has finished, if some await stood between its clear and
\* its last registration.
SuspensionPoints_InTraversal == {"traverse"}

\* Points of a handler at which it hands control back to the event loop
\* before it has finished: the listener and the manager's methods are
\* synchronous functions without await, timer or callback.
SuspensionPoints == {}

\* No activation is in the middle of a run.
Idle == \A j \in DOMAIN running : running[j].pc \in SuspensionPoints

\* Activation i can take a step: no other activation is in the middle of a run.
Runnable(i) == \A j \in DOMAIN running \ {i} : running[j].pc \in SuspensionPoints

RemoveAt(seq, i) == SubSeq(seq, 1, i - 1) \o SubSeq(seq, i + 1, Len(seq))

\* Documents of the event-loop behaviours.
LoopKinds ==
    { Kind("DIV",    "",       FALSE, FALSE, "", "",     ""),
      Kind("BUTTON", "button", FALSE, FALSE, "", "Save", "") }

InitLoop ==
    /\ parent \in DocumentShapes
    /\ kind \in { k \in [Elements -> LoopKinds \cup {BodyKind}] :
                     /\ k[body] = BodyKind
                     /\ \A e \in Elements \ {body} : k[e] \in LoopKinds }
    /\ hiddenBy = [e \in Elements |-> ""]
    /\ value = [e \in Elements |-> ""]
    /\ mutations = 0
    /\ elementMap = EmptyMap
    /\ counter = 0
    /\ issued = {}
    /\ reply = NoReply
    /\ inbox = <<>>
    /\ running = <<>>
    /\ held = <<>>
    /\ WorkerInit

\* chrome.tabs.sendMessage of the background: a request reaches the tab, at
\* any moment, also while a handler runs.
Arrive(m) ==
    /\ Len(inbox) < MaxPending
    /\ inbox' = Append(inbox, m)
    /\ UNCHANGED <<parent, kind, hiddenBy, value, mutations, elementMap, counter, issued,
                   reply, running, held, worker>>

\* The event loop calls the listener with the oldest message once no
\* activation is in the middle of a run.
CallListener ==
    /\ inbox # <<>>
    /\ Idle
    /\ inbox' = Tail(inbox)
    /\ running' = Append(running,
                      IF Head(inbox).action \in CaptureActions
                      THEN Head(inbox) @@ [pc |-> "clear", at |-> 0, todo |-> <<>>, data |-> <<>>]
                      ELSE Head(inbox) @@ [pc |-> "lookup"])
    /\ UNCHANGED <<parent, kind, hiddenBy, value, mutations, elementMap, counter, issued, reply, held, worker>>

\* captureTree / captureCompactTree: this.elementMap.clear(); this.counter = 0;
\* the traversal that follows registers todo[1], todo[2], ... in this order.
CaptureClear(i) ==
    /\ Runnable(i)
    /\ running[i].action \in CaptureActions
    /\ running[i].pc = "clear"
    /\ elementMap' = EmptyMap
    /\ counter' = 0
    /\ LET mgr == [counter |-> counter, elementMap |-> elementMap]
           r   == IF running[i].action = "GET_AX_TREE"
                  THEN captureTree(Doc, body, mgr)
                  ELSE captureCompactTree(Doc, body, mgr)
       IN running' = [running EXCEPT ![i].pc = "traverse", ![i].todo = r.elementMap,
                                     ![i].data = r.data]
    /\ UNCHANGED <<parent, kind, hiddenBy, value, mutations, issued, reply, inbox, held, worker>>

\* this.counter++; this.elementMap.set(this.counter, element) for the next
\* interactive element of the traversal.
CaptureRegister(i) ==
    /\ Runnable(i)
    /\ running[i].action \in CaptureActions
    /\ running[i].pc = "traverse"
    /\ running[i].at < Len(running[i].todo)
    /\ counter' = counter + 1
    /\ elementMap' = MapSet(elementMap, counter + 1, running[i].todo[running[i].at + 1])
    /\ running' = [running EXCEPT ![i].at = @ + 1]
    /\ UNCHANGED <<parent, kind, hiddenBy, value, mutations, issued, reply, inbox, held, worker>>

\* The traversal has returned: sendResponse({success: true, data, ...}).
CaptureRespond(i) ==
    /\ Runnable(i)
    /\ running[i].action \in CaptureActions
    /\ running[i].pc = "traverse"
    /\ running[i].at = Len(running[i].todo)
    /\ issued' = Issue(elementMap)
    /\ reply' = [action |-> running[i].action, success |-> TRUE, data |-> running[i].data]
                 @@ onMessage([success |-> TRUE, data |-> running[i].data])
    /\ running' = RemoveAt(running, i)
    /\ UNCHANGED <<parent, kind, hiddenBy, value, mutations, elementMap, counter, inbox, held, worker>>

\* executeAction(type, refId) and its sendResponse.
ActionRun(i) ==
    /\ Runnable(i)
    /\ running[i].action = "EXECUTE_ACTION"
    /\ LET f == running[i]
           r == executeAction(Doc, elementMap, f.type, f.refId, NoText, NoElement)
       IN /\ value' = r.value
          /\ reply' = [action |-> "EXECUTE_ACTION", type |-> f.type, refId |-> f.refId,
                       text |-> NoText, active |-> NoElement,
                       stale |-> f.refId \in issued /\ f.refId \notin DOMAIN elementMap,
                       response |-> r.response, effects |-> r.effects]
                       @@ onMessage(r.response)
    /\ running' = RemoveAt(running, i)
    /\ UNCHANGED <<parent, kind, hiddenBy, mutations, elementMap, counter, issued, inbox, held, worker>>

\* Requests arriving at any time, handlers run step by step.
NextLoop ==
    \/ \E m \in Messages : Arrive(m)
    \/ CallListener
    \/ \E i \in DOMAIN running : CaptureClear(i)
    \/ \E i \in DOMAIN running : CaptureRegister(i)
    \/ \E i \in DOMAIN running : CaptureRespond(i)
    \/ \E i \in DOMAIN running : ActionRun(i)

SpecLoop == InitLoop /\ [][NextLoop]_vars

Next == NextCapture \/ NextAction \/ NextMessages \/ NextOutput \/ NextLoop

Spec == Init /\ [][Next]_vars

\* -------------------------------------------------------- service worker
\* CONFIG
INITIAL_RETRY_DELAY == 1000
MAX_RETRY_DELAY == 30000
MAX_CONNECTION_ATTEMPTS == 10

\* The variables of the content script and of its client.
content == <<parent, kind, hiddenBy, value, mutations, elementMap, counter, issued, reply,
             inbox, running, held>>

\* Math.min
Min(a, b) == IF a < b THEN a ELSE b

\* getRetryDelay, attempts being connectionAttempts when it is called.
getRetryDelay(attempts) ==
    Min(INITIAL_RETRY_DELAY * 2^attempts, MAX_RETRY_DELAY)

\* connectNativeHost without the test of nativePort.
connectNativeHost_NoPortTest(attempts) ==
    IF isConnecting
    THEN /\ connectionAttempts' = attempts
         /\ pc' = "idle"
         /\ UNCHANGED isConnecting
    ELSE /\ isConnecting' = TRUE
         /\ connectionAttempts' = attempts + 1
         /\ pc' = "connectNative"

\* connectNativeHost up to its call of chrome.runtime.connectNative, entered
\* with connectionAttempts = attempts: return when a connection is in progress
\* or a port is held, else isConnecting = true; connectionAttempts++.
connectNativeHost(attempts) ==
    IF isConnecting \/ nativePort # NoPort
    THEN /\ connectionAttempts' = attempts
         /\ pc' = "idle"
         /\ UNCHANGED isConnecting
    ELSE /\ isConnecting' = TRUE
         /\ connectionAttempts' = attempts + 1
         /\ pc' = "connectNative"

\* One more failed attempt or disconnect since the last connection; from
\* MAX_CONNECTION_ATTEMPTS on the count stands still.
Failed == IF failures < MAX_CONNECTION_ATTEMPTS THEN failures + 1 ELSE failures

\* setTimeout(connectNativeHost, delay) when the counter is below the maximum.
Schedule ==
    IF connectionAttempts < MAX_CONNECTION_ATTEMPTS
    THEN /\ BagCardinality(timers) < MaxTimers
         /\ timers' = timers (+) SetToBag({getRetryDelay(connectionAttempts)})
    ELSE UNCHANGED timers

\* The last statement of the script: connectNativeHost().
Load ==
    /\ pc = "load"
    /\ connectNativeHost(connectionAttempts)
    /\ UNCHANGED <<nativePort, ports, timers, heartbeat, pinged, failures, requests, posted>>
    /\ UNCHANGED content

\* A reconnection timer fires: connectNativeHost().
TimerFires(delay) ==
    /\ pc = "idle"
    /\ BagIn(delay, timers)
    /\ timers' = timers (-) SetToBag({delay})
    /\ connectNativeHost(connectionAttempts)
    /\ UNCHANGED <<nativePort, ports, heartbeat, pinged, failures, requests, posted>>
    /\ UNCHANGED content

\* startHeartbeat with intervals already set: setInterval adds one more, no
\* clearInterval anywhere; chrome.alarms.create replaces the alarm of the
\* same name.
startHeartbeat(intervals) ==
    IF intervals < MaxIntervals THEN intervals + 1 ELSE intervals

\* The ports the requests in flight arrived on.  A port object connectNative
\* returns is a new one, so its identifier is none of these.
PortsReferred ==
    { requests[id].port : id \in { j \in RequestIds : requests[j].at \in {"query", "content"} } }

\* connectNative returns a port: the listeners are added, the counter is
\* reset, startHeartbeat sets the interval and the alarm.
ConnectReturns ==
    /\ pc = "connectNative"
    /\ \E p \in PortIds :
          /\ ports[p] = "free"
          /\ p \notin PortsReferred
          /\ \A q \in PortIds : (ports[q] = "free" /\ q \notin PortsReferred) => p <= q
          /\ nativePort' = p
          /\ ports' = [ports EXCEPT ![p] = "open"]
    /\ connectionAttempts' = 0
    /\ isConnecting' = FALSE
    /\ heartbeat' = startHeartbeat(heartbeat)
    /\ failures' = 0
    /\ pc' = "idle"
    /\ UNCHANGED <<timers, pinged, requests, posted>>
    /\ UNCHANGED content

\* connectNative throws: the catch clause.
ConnectThrows ==
    /\ pc = "connectNative"
    /\ nativePort' = NoPort
    /\ isConnecting' = FALSE
    /\ Schedule
    /\ failures' = Failed
    /\ pc' = "idle"
    /\ UNCHANGED <<connectionAttempts, ports, heartbeat, pinged, requests, posted>>
    /\ UNCHANGED content

\* The host's end of a port closes (the host exits, crashes, or was never
\* there); the PONG of a PING on its way will not come.
PortCloses(p) ==
    /\ ports[p] = "open"
    /\ ports' = [ports EXCEPT ![p] = "closing"]
    /\ pinged' = FALSE
    /\ UNCHANGED <<nativePort, connectionAttempts, isConnecting, timers, heartbeat, failures,
                   pc, requests, posted>>
    /\ UNCHANGED content

\* The onDisconnect listener of a port.
OnDisconnect(p) ==
    /\ pc = "idle"
    /\ ports[p] = "closing"
    /\ ports' = [ports EXCEPT ![p] = "free"]
    /\ nativePort' = NoPort
    /\ isConnecting' = FALSE
    /\ Schedule
    /\ failures' = Failed
    /\ UNCHANGED <<connectionAttempts, heartbeat, pinged, pc, requests, posted>>
    /\ UNCHANGED content

\* sendHeartbeat: post a PING on the port (a throw of postMessage is caught),
\* or connect when there is no port.
sendHeartbeat ==
    IF nativePort # NoPort
    THEN /\ pinged' = (pinged \/ ports[nativePort] = "open")
         /\ UNCHANGED <<connectionAttempts, isConnecting, pc>>
    ELSE /\ connectNativeHost(connectionAttempts)
         /\ UNCHANGED pinged

\* The listener of the 'heartbeat' alarm.
Alarm ==
    /\ pc = "idle"
    /\ heartbeat > 0
    /\ IF nativePort = NoPort
       THEN /\ connectNativeHost(0)
            /\ UNCHANGED pinged
       ELSE sendHeartbeat
    /\ UNCHANGED <<nativePort, ports, timers, heartbeat, failures, requests, posted>>
    /\ UNCHANGED content

\* The callback of the interval startHeartbeat sets.
Interval ==
    /\ pc = "idle"
    /\ heartbeat > 0
    /\ IF nativePort # NoPort
       THEN sendHeartbeat
       ELSE UNCHANGED <<connectionAttempts, isConnecting, pc, pinged>>
    /\ UNCHANGED <<nativePort, ports, timers, heartbeat, failures, requests, posted>>
    /\ UNCHANGED content

\* The host answers a PING: message.type === 'PONG'.
Pong ==
    /\ pc = "idle"
    /\ pinged
    /\ nativePort # NoPort
    /\ ports[nativePort] = "open"
    /\ pinged' = FALSE
    /\ UNCHANGED <<nativePort, connectionAttempts, isConnecting, ports, timers, heartbeat,
                   failures, pc, requests, posted>>
    /\ UNCHANGED content

\* The delays a pending timer can have.
Delays == { getRetryDelay(n) : n \in 0..(MAX_CONNECTION_ATTEMPTS - 1) }

\* The service worker alone: the tab is not looked at.
InitWorker ==
    /\ parent = [e \in Elements |-> e - 1]
    /\ kind = [e \in Elements |-> IF e = body THEN BodyKind
                                  ELSE Kind("BUTTON", "button", FALSE, FALSE, "", "Save", "")]
    /\ hiddenBy = [e \in Elements |-> ""]
    /\ value = [e \in Elements |-> ""]
    /\ mutations = 0
    /\ elementMap = EmptyMap
    /\ counter = 0
    /\ issued = {}
    /\ reply = NoReply
    /\ inbox = <<>>
    /\ running = <<>>
    /\ held = <<>>
    /\ WorkerInit

\* The connection to the native host: connecting, disconnects, reconnection
\* timers, the heartbeat.
NextWorker ==
    \/ Load
    \/ \E delay \in Delays : TimerFires(delay)
    \/ ConnectReturns
    \/ ConnectThrows
    \/ \E p \in PortIds : PortCloses(p)
    \/ \E p \in PortIds : OnDisconnect(p)
    \/ Alarm
    \/ Interval
    \/ Pong

SpecWorker == InitWorker /\ [][NextWorker]_vars

\* ------------------------------------------------------------------ relay
\* The actions of the external interface, and one that is not among them.
InterfaceActions == {"GET_AX_TREE", "GET_AX_TREE_COMPACT", "GET_PAGE_TEXT", "EXECUTE_ACTION"}
RelayActions == InterfaceActions \cup {"NAVIGATE"}

\* The actions handleNativeMessage has a branch for.
Forwarded == {"GET_AX_TREE", "EXECUTE_ACTION"}

\* sendToNativeHost({id, result}), sendToNativeHost({id, error}).
Result(id, response) == [id |-> id, result |-> response]
Error(id, error) == [id |-> id, error |-> error]

\* What the listener of the tab answers to a message with this action (an
\* EXECUTE_ACTION being a click through handle 1, a GET_PAGE_TEXT without
\* parameters on a page whose text is "Inbox").
ContentResponse(action) ==
    LET st == [counter |-> counter, elementMap |-> elementMap]
    IN IF action = "GET_AX_TREE"
       THEN [success |-> TRUE, data |-> captureTree(Doc, body, st).data]
       ELSE IF action = "GET_AX_TREE_COMPACT"
       THEN LET data == captureCompactTree(Doc, body, st).data
            IN [success |-> TRUE, data |-> data, count |-> Len(data)]
       ELSE IF action = "GET_PAGE_TEXT"
       THEN onMessage(extractPageText(NoSelector, DefaultMaxLength, "Inbox")).sent[1]
       ELSE onMessage(executeAction(Doc, elementMap, "click", 1, NoText, NoElement).response).sent[1]

\* sendToNativeHost posting the message twice.
sendToNativeHost_Twice(id, message) ==
    IF nativePort # NoPort /\ ports[nativePort] = "open"
    THEN /\ posted' = [posted EXCEPT ![id] = @ \o <<message, message>>]
         /\ requests' = [requests EXCEPT ![id] = [at |-> "answered", via |-> nativePort] @@ @]
    ELSE /\ requests' = [requests EXCEPT ![id].at = "dropped"]
         /\ UNCHANGED posted

\* sendToNativeHost(message), the last call handleNativeMessage makes for
\* request id: postMessage on the port nativePort names at this moment (kept
\* in the request as "via"), a throw of postMessage on a port that has closed
\* being caught and logged; a log entry when nativePort is null.
sendToNativeHost(id, message) ==
    IF nativePort # NoPort /\ ports[nativePort] = "open"
    THEN /\ posted' = [posted EXCEPT ![id] = Append(@, message)]
         /\ requests' = [requests EXCEPT ![id] = [at |-> "answered", via |-> nativePort] @@ @]
    ELSE /\ requests' = [requests EXCEPT ![id].at = "dropped"]
         /\ UNCHANGED posted

\* The onMessage listener of the port receives {id, action, params} (the port
\* is kept in the request as "port") and calls
\* handleNativeMessage, which runs up to its await of chrome.tabs.query.
Receive(id, action) ==
    /\ pc = "idle"
    /\ nativePort # NoPort
    /\ ports[nativePort] = "open"
    /\ requests[id] = NoRequest
    /\ \A j \in RequestIds : j < id => requests[j] # NoRequest
    /\ requests' = [requests EXCEPT ![id] = [at |-> "query", action |-> action,
                                                port |-> nativePort]]
    /\ UNCHANGED <<nativePort, connectionAttempts, isConnecting, ports, timers, heartbeat,
                   pinged, failures, pc, posted>>
    /\ UNCHANGED content

\* chrome.tabs.query has answered, with an active tab or without:
\* handleNativeMessage runs up to its await of chrome.tabs.sendMessage, or to
\* its end.
TabQueried(id, tab) ==
    /\ pc = "idle"
    /\ requests[id].at = "query"
    /\ LET action == requests[id].action
       IN IF ~tab
          THEN sendToNativeHost(id, Error(id, <<"No active tab found">>))
          ELSE IF action \in Forwarded
          THEN /\ requests' = [requests EXCEPT ![id].at = "content"]
               /\ UNCHANGED posted
          ELSE sendToNativeHost(id, Error(id, <<"Unknown action", action>>))
    /\ UNCHANGED <<nativePort, connectionAttempts, isConnecting, ports, timers, heartbeat,
                   pinged, failures, pc>>
    /\ UNCHANGED content

\* chrome.tabs.sendMessage has settled: with the response of the content
\* script, or rejected (no listener in the tab), which the catch clause
\* answers.
ContentAnswers(id, settled) ==
    /\ pc = "idle"
    /\ requests[id].at = "content"
    /\ IF settled
       THEN sendToNativeHost(id, Result(id, ContentResponse(requests[id].action)))
       ELSE sendToNativeHost(id, Error(id, <<"Could not establish connection">>))
    /\ UNCHANGED <<nativePort, connectionAttempts, isConnecting, ports, timers, heartbeat,
                   pinged, failures, pc>>
    /\ UNCHANGED content

\* Requests of the native host relayed to the tab while the port may close
\* and be reopened.
NextRelay ==
    \/ Load
    \/ \E delay \in Delays : TimerFires(delay)
    \/ ConnectReturns
    \/ \E p \in PortIds : PortCloses(p)
    \/ \E p \in PortIds : OnDisconnect(p)
    \/ Alarm
    \/ \E id \in RequestIds, action \in RelayActions : Receive(id, action)
    \/ \E id \in RequestIds, tab \in BOOLEAN : TabQueried(id, tab)
    \/ \E id \in RequestIds, settled \in BOOLEAN : ContentAnswers(id, settled)

SpecRelay == InitWorker /\ [][NextRelay]_vars

\* The promises handleNativeMessage awaits settle, and the event loop of the
\* worker runs every continuation and every call it has started to its end.
SpecRelayFair ==
    /\ SpecRelay
    /\ WF_vars(ConnectReturns)
    /\ \A id \in RequestIds :
          /\ SF_vars(\E tab \in BOOLEAN : TabQueried(id, tab))
          /\ SF_vars(\E settled \in BOOLEAN : ContentAnswers(id, settled))

\* ---------------------------------------------------- reading an output
IsCaptureReply == reply.action \in {"GET_AX_TREE", "GET_AX_TREE_COMPACT", "SIDEBAR_REFRESH"}

\* The handles of a node list in output order: a node, then its children.
RECURSIVE NodeHandles(_)
NodeHandles(nodes) ==
    IF nodes = <<>> THEN <<>>
    ELSE LET n    == Head(nodes)
             own  == IF "refId" \in DOMAIN n THEN <<n.refId>> ELSE <<>>
             kids == IF "children" \in DOMAIN n THEN NodeHandles(n.children) ELSE <<>>
         IN own \o kids \o NodeHandles(Tail(nodes))

TupleHandles(tuples) == [i \in 1..Len(tuples) |-> tuples[i][1]]

\* The handles the capture being answered put in its output, in order.
OutputHandles ==
    IF reply.action = "GET_AX_TREE"
    THEN IF reply.data = NullTree THEN <<>> ELSE NodeHandles(<<reply.data>>)
    ELSE IF reply.action = "GET_AX_TREE_COMPACT" THEN TupleHandles(reply.data)
    ELSE NodeHandles(reply.nodes)

Range(f) == {f[x] : x \in DOMAIN f}

\* What a capture has to expose, read off the document alone: the
\* interactive elements below body with no excluded element on the way.
Exposed(d) ==
    { e \in DOMAIN d.parent :
        /\ IsConnected(d, e)
        /\ isInteractiveElement(d, e)
        /\ \A a \in {e} \cup Ancestors(d, e) :
              d.hiddenBy[a] = "" /\ d.kind[a].tagName \notin svgSkip }

\* C1: after any completed capture that exposes k interactive nodes the
\* handles of the registry are exactly 1..k, each once in the output, however
\* many handles earlier captures assigned and whichever mode they used.
C1_HandlesContiguous ==
    IsCaptureReply =>
        LET hs == OutputHandles
            k  == Len(hs)
        IN /\ DOMAIN elementMap = 1..k
           /\ Range(hs) = 1..k
           /\ counter = k
           /\ k = Cardinality(Exposed(Doc))

\* C1 witness: a capture that exposes at least one node, answered after an
\* earlier capture had assigned more handles.
C1_Witness ==
    /\ IsCaptureReply
    /\ counter >= 1
    /\ \E h \in issued : h > counter

\* C2: for one document state the compact capture lists the same handles
\* in the same order as the flattened nested capture, bound to the same
\* elements.
C2_ModesAgree ==
    reply.action = "GET_AX_TREE" =>
        LET compact == captureCompactTree(Doc, body,
                           [counter |-> counter, elementMap |-> elementMap])
        IN /\ OutputHandles = TupleHandles(compact.data)
           /\ elementMap = compact.elementMap

\* C3: in both capture modes, of two exposed elements the one earlier in
\* document order has the smaller handle.
C3_DocumentOrder ==
    reply.action \in {"GET_AX_TREE", "GET_AX_TREE_COMPACT"} =>
        \A h1, h2 \in DOMAIN elementMap :
            elementMap[h1] < elementMap[h2] => h1 < h2

\* C7: after any capture (nested, compact, panel refresh) the registry
\* holds exactly the entries that capture assigned: its handles are the
\* handles of the output and its elements are the elements exposed now.
C7_RegistryReplaced ==
    IsCaptureReply =>
        /\ DOMAIN elementMap = Range(OutputHandles)
        /\ Range(elementMap) = Exposed(Doc)
        /\ Cardinality(DOMAIN elementMap) = Cardinality(Exposed(Doc))

\* C7 witness: a panel refresh answered when an earlier capture had
\* registered more handles than the document exposes now.
C7_Witness ==
    /\ reply.action = "SIDEBAR_REFRESH"
    /\ \E h \in issued : h > Cardinality(Exposed(Doc))
    /\ Exposed(Doc) # {}

\* C10: an element hidden by display, visibility or aria-hidden, and every
\* element below it, gets no handle and no node; a hidden root gives an
\* empty result and an empty registry.
HiddenOrBelow(d, e) == \E a \in {e} \cup Ancestors(d, e) : d.hiddenBy[a] \in HideCauses

\* The grouping nodes of a node list (no handle, not the synthetic root).
RECURSIVE GroupNodeCount(_)
GroupNodeCount(nodes) ==
    IF nodes = <<>> THEN 0
    ELSE LET n == Head(nodes)
         IN (IF "refId" \notin DOMAIN n /\ n.role # "tree" THEN 1 ELSE 0)
            + (IF "children" \in DOMAIN n THEN GroupNodeCount(n.children) ELSE 0)
            + GroupNodeCount(Tail(nodes))

\* The labelled containers entitled to a grouping node: not hidden, not
\* below a hidden element, with an exposed element below them.
VisibleGroups(d) ==
    { g \in DOMAIN d.parent :
        /\ IsConnected(d, g)
        /\ ~HiddenOrBelow(d, g)
        /\ ~isInteractiveElement(d, g)
        /\ getSemanticLabel(d, g) # ""
        /\ \E e \in Exposed(d) : g \in Ancestors(d, e) }

C10_HiddenExcluded ==
    IsCaptureReply =>
        /\ \A h \in DOMAIN elementMap : ~HiddenOrBelow(Doc, elementMap[h])
        /\ Len(OutputHandles) = Cardinality({e \in Exposed(Doc) : ~HiddenOrBelow(Doc, e)})
        /\ reply.action = "GET_AX_TREE" /\ reply.data # NullTree =>
              GroupNodeCount(<<reply.data>>) = Cardinality(VisibleGroups(Doc))
        /\ HiddenOrBelow(Doc, body) =>
              /\ elementMap = EmptyMap
              /\ counter = 0
              /\ reply.action = "GET_AX_TREE" => reply.data = NullTree
              /\ reply.action = "GET_AX_TREE_COMPACT" => reply.data = <<>>
              /\ reply.action = "SIDEBAR_REFRESH" => reply.nodes = <<>>

\* C10 witness: a capture of a document in which an interactive element
\* lies below a hidden element.
C10_Witness ==
    /\ IsCaptureReply
    /\ \E e \in Elements :
          /\ isInteractiveElement(Doc, e)
          /\ IsConnected(Doc, e)
          /\ \E a \in Ancestors(Doc, e) : hiddenBy[a] \in HideCauses

\* ---------------------------------------------------- reading a response
IsActionReply == reply.action = "EXECUTE_ACTION"

\* The action kinds that act on the page, not on an element.
PageLevelTypes == {"keypress", "scroll_page"}

NotFound(refId) == Failure("ElementNotFound", <<"Element with refId", refId, "not found">>)

\* C4 as stated: executeAction(type, h) with h absent from the registry
\* fails with ElementNotFound naming h and makes no platform call, for every
\* action type.
C4_AnyTypeNotFound ==
    (IsActionReply /\ reply.refId # NullRef /\ reply.refId \notin DOMAIN elementMap) =>
        /\ reply.response = NotFound(reply.refId)
        /\ reply.effects = <<>>

\* C4 amended: for every action type other than keypress and scroll_page,
\* executeAction(type, h) with h absent from the registry fails with
\* ElementNotFound naming h, makes no platform call and leaves the values,
\* the document and the registry as they were.
C4_ElementTypeNotFound ==
    [][ (reply.action = "none" /\ reply'.action = "EXECUTE_ACTION") =>
          ( ( /\ reply'.refId # NullRef
              /\ reply'.refId \notin DOMAIN elementMap
              /\ reply'.type \notin PageLevelTypes )
            => /\ reply'.response = NotFound(reply'.refId)
               /\ reply'.effects = <<>>
               /\ value' = value
               /\ elementMap' = elementMap
               /\ counter' = counter
               /\ parent' = parent /\ kind' = kind /\ hiddenBy' = hiddenBy ) ]_vars

\* C4 witness: a per-element action on an unregistered handle, refused while
\* the registry holds a text field it could have written to.
C4_Witness ==
    /\ IsActionReply
    /\ reply.type = "type" /\ reply.text = "hello"
    /\ reply.refId # NullRef /\ reply.refId \notin DOMAIN elementMap
    /\ reply.response = NotFound(reply.refId)
    /\ \E h \in DOMAIN elementMap : kind[elementMap[h]].tagName = "INPUT"

\* C5: a handle some earlier capture issued and the registry no longer holds
\* is answered exactly as a content script that never issued any handle
\* answers it, and with ElementNotFound wherever the handle is looked up.
C5_StaleAsUnknown ==
    (IsActionReply /\ reply.stale) =>
        LET unknown == executeAction(Doc, EmptyMap, reply.type, reply.refId,
                                     reply.text, reply.active)
        IN /\ reply.response = unknown.response
           /\ reply.effects = unknown.effects
           /\ reply.type \notin PageLevelTypes => reply.response = NotFound(reply.refId)

\* C5 witness: a click on a stale handle refused while the registry is not
\* empty.
C5_Witness ==
    /\ IsActionReply /\ reply.stale
    /\ reply.type = "click"
    /\ reply.response = NotFound(reply.refId)
    /\ elementMap # EmptyMap

\* C6: an action on the handle of an element removed from the document since
\* its capture fails and makes no platform call.
C6_DetachedFails ==
    ( /\ IsActionReply
      /\ reply.type \notin PageLevelTypes
      /\ reply.refId \in DOMAIN elementMap
      /\ ~IsConnected(Doc, elementMap[reply.refId]) )
    => /\ reply.response.success = FALSE
       /\ reply.effects = <<>>

\* C8: a click on a handle of the registry activates the element bound to
\* the handle once, makes no other platform call and answers
\* {clicked: true, refId}.
C8_ClickOnce ==
    (IsActionReply /\ reply.type = "click" /\ reply.refId \in DOMAIN elementMap) =>
        /\ reply.effects = << [op |-> "click", target |-> elementMap[reply.refId]] >>
        /\ reply.response = Success([clicked |-> TRUE, refId |-> reply.refId])

\* C8 witness: a click answered while the registry holds another element.
C8_Witness ==
    /\ IsActionReply /\ reply.type = "click"
    /\ reply.refId \in DOMAIN elementMap
    /\ reply.response.success
    /\ Cardinality(DOMAIN elementMap) >= 2

\* C9: type with a non-empty text on a handle bound to an INPUT or TEXTAREA
\* sets the element's value to the text, dispatches input then change, once
\* each, and answers {typed: true, refId, text}.
C9_TypeSetsValue ==
    ( /\ IsActionReply /\ reply.type = "type"
      /\ ~Falsy(reply.text)
      /\ reply.refId \in DOMAIN elementMap
      /\ kind[elementMap[reply.refId]].tagName \in {"INPUT", "TEXTAREA"} )
    => LET element == elementMap[reply.refId]
       IN /\ value[element] = reply.text
          /\ reply.effects = <<Dispatch("input", element), Dispatch("change", element)>>
          /\ reply.response =
                Success([typed |-> TRUE, refId |-> reply.refId, text |-> reply.text])

\* C9 witness: "hello" typed into a registered text field.
C9_Witness ==
    /\ IsActionReply /\ reply.type = "type" /\ reply.text = "hello"
    /\ reply.refId \in DOMAIN elementMap
    /\ kind[elementMap[reply.refId]].tagName = "INPUT"
    /\ value[elementMap[reply.refId]] = "hello"

\* ------------------------------------------------ reading what was sent
IsMessageReply ==
    reply.action \in {"GET_AX_TREE", "GET_AX_TREE_COMPACT", "GET_PAGE_TEXT", "EXECUTE_ACTION"}

\* The error kinds of the executor.
ErrorKinds == {"ElementNotFound", "UnsupportedElementForAction", "MissingParameter",
               "UnknownActionType"}

\* C11: every GET_AX_TREE, GET_AX_TREE_COMPACT, GET_PAGE_TEXT or
\* EXECUTE_ACTION message is answered by exactly one sendResponse call, with
\* {success: true, ...} or {success: false, error}; an error of the executor
\* (one of the four kinds) is the error of the failure response and never
\* leaves the listener.
C11_OneResponse ==
    IsMessageReply =>
        /\ Len(reply.sent) = 1
        /\ ~reply.escaped
        /\ LET r == reply.sent[1]
           IN \/ r.success = TRUE /\ "error" \notin DOMAIN r
              \/ r.success = FALSE /\ "error" \in DOMAIN r
        /\ (IsActionReply /\ ~reply.response.success) =>
              /\ reply.response.error \in ErrorKinds
              /\ reply.sent[1].success = FALSE
              /\ reply.sent[1].error = reply.response.error
              /\ reply.sent[1].message = reply.response.message

\* C11 witness: an action the executor refused, answered by one failure
\* response, after a page text request was answered with a failure too.
C11_Witness ==
    /\ IsActionReply
    /\ reply.response = Failure("UnsupportedElementForAction",
                                <<"Element", reply.refId, "is not an input or textarea">>)
    /\ Len(reply.sent) = 1
    /\ reply.sent[1].success = FALSE

\* ------------------------------------------------- reading an execution
\* The step in which the listener runs executeAction for a request.
Executes == reply.action = "none" /\ reply'.action = "EXECUTE_ACTION"

\* The step changed nothing of the page or of the manager.
NoSideEffect ==
    /\ reply'.effects = <<>>
    /\ value' = value
    /\ parent' = parent /\ kind' = kind /\ hiddenBy' = hiddenBy
    /\ elementMap' = elementMap /\ counter' = counter

Registered(refId) == refId \in DOMAIN elementMap

\* C12: type with a text, or clear, on a registered handle whose element is
\* neither an INPUT nor a TEXTAREA fails with UnsupportedElementForAction,
\* leaves every value as it was and dispatches no input or change event.
C12_UnsupportedElement ==
    [][ Executes =>
          ( ( /\ Registered(reply'.refId)
              /\ kind[elementMap[reply'.refId]].tagName \notin {"INPUT", "TEXTAREA"}
              /\ \/ reply'.type = "type" /\ ~Falsy(reply'.text)
                 \/ reply'.type = "clear" )
            => /\ reply'.response = Failure("UnsupportedElementForAction",
                                      <<"Element", reply'.refId, "is not an input or textarea">>)
               /\ NoSideEffect ) ]_vars

\* C12 witness: clear refused on a registered button while the registry
\* also holds a text field with a value.
C12_Witness ==
    /\ IsActionReply /\ reply.type = "clear"
    /\ Registered(reply.refId)
    /\ kind[elementMap[reply.refId]].tagName = "BUTTON"
    /\ reply.response.success = FALSE
    /\ reply.response.error = "UnsupportedElementForAction"
    /\ \E h \in DOMAIN elementMap : value[elementMap[h]] = "hello"

\* C13: type on a registered handle without a text (undefined or empty), and
\* keypress without a key, fail with MissingParameter, change no value and
\* dispatch no event.
C13_MissingParameter ==
    [][ Executes =>
          /\ (reply'.type = "type" /\ Registered(reply'.refId) /\ reply'.text \in {NoText, ""})
                => /\ reply'.response =
                        Failure("MissingParameter", <<"Text is required for type action">>)
                   /\ NoSideEffect
          /\ (reply'.type = "keypress" /\ reply'.text \in {NoText, ""})
                => /\ reply'.response =
                        Failure("MissingParameter", <<"Key is required for keypress action">>)
                   /\ NoSideEffect ]_vars

\* C13 witness: type with an empty text refused on a registered text field
\* that holds a value.
C13_Witness ==
    /\ IsActionReply /\ reply.type = "type" /\ reply.text = ""
    /\ Registered(reply.refId)
    /\ kind[elementMap[reply.refId]].tagName = "INPUT"
    /\ value[elementMap[reply.refId]] = "hello"
    /\ reply.response.success = FALSE
    /\ reply.response.error = "MissingParameter"

\* C14 as stated: a type outside the closed set fails with UnknownActionType
\* and makes no platform call, whatever the handle argument is.
C14_AnyHandleUnknownType ==
    (IsActionReply /\ reply.type \notin ActionTypes) =>
        /\ reply.response = Failure("UnknownActionType", <<"Unknown action type", reply.type>>)
        /\ reply.effects = <<>>

\* C14 amended: a type outside the closed set fails without side effect for
\* every handle argument: with UnknownActionType when the handle is
\* registered, with ElementNotFound when it is not, with MissingParameter
\* (refId is required) when it is absent.
C14_UnknownTypeByHandle ==
    [][ (Executes /\ reply'.type \notin ActionTypes) =>
          /\ NoSideEffect
          /\ reply'.response =
                IF reply'.refId = NullRef
                THEN Failure("MissingParameter",
                             <<"refId is required for action type", reply'.type>>)
                ELSE IF ~Registered(reply'.refId) THEN NotFound(reply'.refId)
                ELSE Failure("UnknownActionType", <<"Unknown action type", reply'.type>>) ]_vars

\* C14 witness: an unknown type refused as such on a registered handle.
C14_Witness ==
    /\ IsActionReply /\ reply.type = OtherType
    /\ Registered(reply.refId)
    /\ reply.response = Failure("UnknownActionType", <<"Unknown action type", OtherType>>)

\* C15: keypress with a key and scroll_page succeed whatever the handle
\* argument and the registry are, with the answer an empty registry and an
\* absent handle give; neither ever fails with ElementNotFound; every other
\* type fails when the handle is absent.
C15_PageLevelNeedsNoHandle ==
    IsActionReply =>
        /\ (reply.type = "scroll_page" \/ (reply.type = "keypress" /\ ~Falsy(reply.text))) =>
              LET bare == executeAction(Doc, EmptyMap, reply.type, NullRef,
                                        reply.text, reply.active)
              IN /\ reply.response.success
                 /\ reply.response = bare.response
                 /\ reply.effects = bare.effects
        /\ reply.type \in PageLevelTypes =>
              (reply.response.success \/ reply.response.error # "ElementNotFound")
        /\ (reply.type \notin PageLevelTypes /\ reply.refId = NullRef) =>
              /\ ~reply.response.success
              /\ reply.effects = <<>>

\* C15 witness: a keypress without handle answered with success before any
\* capture, nothing being focused.
C15_Witness ==
    /\ IsActionReply /\ reply.type = "keypress" /\ reply.text = "hello"
    /\ reply.refId = NullRef
    /\ reply.active = NoElement
    /\ elementMap = EmptyMap
    /\ reply.response.success

\* -------------------------------------------------------- reading names
\* The nodes of a node list: a node, then the nodes below it.
RECURSIVE AllNodes(_)
AllNodes(nodes) ==
    IF nodes = <<>> THEN <<>>
    ELSE LET n == Head(nodes)
         IN <<n>> \o (IF "children" \in DOMAIN n THEN AllNodes(n.children) ELSE <<>>)
                  \o AllNodes(Tail(nodes))

\* The nodes of the nested capture being answered.
OutputNodes == IF reply.data = NullTree THEN <<>> ELSE AllNodes(<<reply.data>>)

\* node.name, "" when the node has none.
NameOf(n) == IF "name" \in DOMAIN n THEN n.name ELSE ""

\* The labels of the containers of the document.
ContainerLabels ==
    { getSemanticLabel(Doc, g) : g \in {e \in Elements : ~isInteractiveElement(Doc, e)} }

\* C16: every name of a nested or compact capture output has at most 80
\* units; the name of an interactive node or tuple is the resolved name of
\* its element, unchanged up to 80 units and otherwise its first 77 units
\* followed by '...'; the name of a grouping node is a container's label
\* treated the same way.
C16_NamesWithinLimit ==
    LET Emitted(name) == IF Len(name) <= 80 THEN name ELSE SubSeq(name, 1, 77) \o "..."
    IN
    /\ reply.action = "GET_AX_TREE" =>
          \A i \in DOMAIN OutputNodes :
              LET n == OutputNodes[i]
              IN /\ Len(NameOf(n)) <= 80
                 /\ "refId" \in DOMAIN n =>
                       NameOf(n) = Emitted(resolveName(Doc, elementMap[n.refId]))
                 /\ ("refId" \notin DOMAIN n /\ n.role # "tree") =>
                       \E label \in ContainerLabels \ {""} : n.name = Emitted(label)
    /\ reply.action = "GET_AX_TREE_COMPACT" =>
          \A i \in DOMAIN reply.data :
              LET t == reply.data[i]
              IN /\ Len(t[3]) <= 80
                 /\ t[3] = Emitted(resolveName(Doc, elementMap[t[1]]))

\* C16 witness: a nested capture with a grouping node whose label was cut
\* and, below it, an interactive node whose name of 100 units was cut.
C16_Witness ==
    /\ reply.action = "GET_AX_TREE"
    /\ \E i, j \in DOMAIN OutputNodes :
          /\ "refId" \notin DOMAIN OutputNodes[i]
          /\ NameOf(OutputNodes[i]) = SubSeq(Name81, 1, 77) \o "..."
          /\ "refId" \in DOMAIN OutputNodes[j]
          /\ resolveName(Doc, elementMap[OutputNodes[j].refId]) = Name100
          /\ Len(NameOf(OutputNodes[j])) = 80

\* ------------------------------------------------ reading a nested tree
\* An element kind that passes the gate for a handle: allow-listed role,
\* explicit tab stop or click handler.
InteractiveKind(k) == k.role \in interactiveRoles \/ k.hasTabindex \/ k.isClickable

\* The elements behind the nodes of a nested capture, read off the document:
\* an excluded element stands for nothing; otherwise, C being what its
\* children stand for, an interactive element and a labelled element with
\* non-empty C stand for themselves with C below them, any other element
\* stands for C.
RECURSIVE Contribution(_, _), ChildContributions(_, _)
ChildContributions(d, kids) ==
    IF kids = <<>> THEN <<>>
    ELSE Contribution(d, Head(kids)) \o ChildContributions(d, Tail(kids))

Contribution(d, e) ==
    IF d.hiddenBy[e] # "" \/ d.kind[e].tagName \in svgSkip THEN <<>>
    ELSE LET C == ChildContributions(d, Children(d, e))
         IN IF InteractiveKind(d.kind[e]) THEN << [element |-> e, children |-> C] >>
            ELSE IF d.kind[e].ariaLabel # "" /\ C # <<>>
            THEN << [element |-> e, children |-> C] >>
            ELSE C

\* The nesting of a node list, nothing but the nesting.
RECURSIVE Shape(_)
Shape(nodes) ==
    [i \in 1..Len(nodes) |->
        Shape(IF "children" \in DOMAIN nodes[i] THEN nodes[i].children ELSE <<>>)]

\* The list captureTree wrapped: none for null, the children of the
\* synthetic root, or the single node.
TopLevel(data) ==
    IF data = NullTree THEN <<>>
    ELSE IF "refId" \notin DOMAIN data /\ data.role = "tree" THEN data.children
    ELSE <<data>>

\* Node n is the node of element e: for an interactive element the node
\* with the handle the registry binds to e, tag and role of e; otherwise a
\* grouping node bearing the label of e, without handle and tag.
NodeIsOf(n, e) ==
    IF InteractiveKind(kind[e])
    THEN /\ "refId" \in DOMAIN n
         /\ n.refId \in DOMAIN elementMap
         /\ elementMap[n.refId] = e
         /\ n.tagName = kind[e].tagName
         /\ n.role = (IF kind[e].role # "" THEN kind[e].role ELSE "generic")
    ELSE /\ DOMAIN n = {"role", "name", "children"}
         /\ n.role = (IF kind[e].role # "" THEN kind[e].role ELSE "group")
         /\ n.name = truncateName(kind[e].ariaLabel)
         /\ Len(n.children) > 0

\* C17: in a nested capture a node carries a handle if and only if the
\* element it was built from is interactive (role, tab stop or click
\* handler); the registry binds that handle to that element; grouping nodes
\* and the synthetic root carry none.
C17_HandleIffInteractive ==
    reply.action = "GET_AX_TREE" =>
        LET top == TopLevel(reply.data)
            exp == Contribution(Doc, body)
            out == AllNodes(top)
            els == AllNodes(exp)
        IN /\ Shape(top) = Shape(exp)
           /\ Shape(top) = Shape(exp) =>
                 \A i \in DOMAIN out :
                    /\ ("refId" \in DOMAIN out[i]) <=> InteractiveKind(kind[els[i].element])
                    /\ "refId" \in DOMAIN out[i] =>
                          /\ out[i].refId \in DOMAIN elementMap
                          /\ elementMap[out[i].refId] = els[i].element
           /\ Len(exp) > 1 => "refId" \notin DOMAIN reply.data

\* C17 witness: a nested capture with a grouping node and, below it, the
\* node of an element that is interactive by its tab stop alone.
C17_Witness ==
    /\ reply.action = "GET_AX_TREE"
    /\ reply.data # NullTree
    /\ "refId" \notin DOMAIN reply.data
    /\ reply.data.role = "group"
    /\ \E i \in DOMAIN reply.data.children :
          /\ "refId" \in DOMAIN reply.data.children[i]
          /\ kind[elementMap[reply.data.children[i].refId]].hasTabindex

\* C18: in a nested capture every element that is not excluded contributes,
\* C being the concatenation of its children's contributions in document
\* order: one node with C as children if it is interactive, one grouping
\* node with its label and C as children if it has a label and C is not
\* empty, and C itself otherwise, the element not appearing at all.
C18_ContributionRule ==
    reply.action = "GET_AX_TREE" =>
        LET top == TopLevel(reply.data)
            exp == Contribution(Doc, body)
            out == AllNodes(top)
            els == AllNodes(exp)
        IN /\ Shape(top) = Shape(exp)
           /\ Shape(top) = Shape(exp) =>
                 \A i \in DOMAIN out :
                    /\ NodeIsOf(out[i], els[i].element)
                    /\ ("children" \in DOMAIN out[i]) <=> (els[i].children # <<>>)

\* C18 witness: a nested capture in which an interactive element lies below
\* an interactive element: the node of the outer one nests the node of the
\* inner one.
C18_Witness ==
    /\ reply.action = "GET_AX_TREE"
    /\ reply.data # NullTree
    /\ "refId" \in DOMAIN reply.data
    /\ "children" \in DOMAIN reply.data
    /\ Len(NodeHandles(<<reply.data>>)) = 2

\* C19: a nested capture returns null when nothing is contributed at top
\* level, the contributed node itself when there is one, and otherwise a
\* root {role: 'tree', children} without handle whose children are the
\* contributed nodes in document order.
C19_SingleEntryPoint ==
    reply.action = "GET_AX_TREE" =>
        LET exp == Contribution(Doc, body)
        IN /\ Len(exp) = 0 => reply.data = NullTree
           /\ Len(exp) = 1 =>
                 /\ reply.data # NullTree
                 /\ NodeIsOf(reply.data, exp[1].element)
                 /\ Shape(<<reply.data>>) = Shape(exp)
           /\ Len(exp) > 1 =>
                 /\ DOMAIN reply.data = {"role", "children"}
                 /\ reply.data.role = "tree"
                 /\ Len(reply.data.children) = Len(exp)
                 /\ Shape(reply.data.children) = Shape(exp)
                 /\ \A i \in 1..Len(exp) :
                       i \in DOMAIN reply.data.children =>
                          NodeIsOf(reply.data.children[i], exp[i].element)

\* C19 witness: two elements contribute at top level and the capture
\* returns the root around their two nodes.
C19_Witness ==
    /\ reply.action = "GET_AX_TREE"
    /\ Len(Contribution(Doc, body)) = 2
    /\ reply.data.role = "tree"
    /\ Len(reply.data.children) = 2

\* ------------------------------------------------- reading the event loop
\* The activations that are captures / that are between clear and completion.
CapturesRunning == {i \in DOMAIN running : running[i].action \in CaptureActions}
CapturesCleared == {i \in CapturesRunning : running[i].pc = "traverse"}

\* A registry as a completed capture leaves it, or as construction does.
RegistryComplete ==
    \/ elementMap = EmptyMap /\ counter = 0
    \/ elementMap = captureTree(Doc, body, [counter |-> 0, elementMap |-> EmptyMap]).elementMap
    \/ elementMap = captureCompactTree(Doc, body,
                        [counter |-> 0, elementMap |-> EmptyMap]).elementMap

\* C20: whatever the order in which requests arrive, at most one capture is
\* in progress at a time, and an action runs its lookup only when no capture
\* is between its clear and its completion: the registry it reads is a
\* complete one.
C20_HandlersAtomic ==
    /\ Cardinality(CapturesRunning) <= 1
    /\ \A i \in DOMAIN running :
          /\ Cardinality(CapturesCleared \ {i}) = 0
          /\ running[i].action = "EXECUTE_ACTION" =>
                /\ CapturesRunning = {}
                /\ RegistryComplete

\* C20 witness: a capture has cleared the registry and registered some but
\* not all of its elements while an action and another capture wait in the
\* inbox.
C20_Witness ==
    /\ \E i \in CapturesCleared :
          /\ running[i].at >= 1
          /\ running[i].at < Len(running[i].todo)
    /\ ~RegistryComplete
    /\ \E j, k \in DOMAIN inbox :
          /\ inbox[j].action = "EXECUTE_ACTION"
          /\ inbox[k].action \in CaptureActions


\* ------------------------------------------------- reading the registry
\* C23: between two captures the registry is frozen: a step that changes a
\* registry entry or the handle counter is the step of a capture; an
\* executeAction call of any type and outcome, the lookup it makes and a
\* page-text request leave both as they were.
C23_RegistryFrozen ==
    [][ (elementMap' # elementMap \/ counter' # counter)
           => reply'.action \in {"GET_AX_TREE", "GET_AX_TREE_COMPACT", "SIDEBAR_REFRESH"} ]_vars

\* C23 witness: an action has acted on a registered element after a capture
\* issued handles.
C23_Witness ==
    /\ reply.action = "EXECUTE_ACTION"
    /\ reply.response.success
    /\ reply.refId \in DOMAIN elementMap
    /\ counter > 0


\* ------------------------------------------------------ reading a clear
\* C25: clear behaves as type with an empty value.  On a registered
\* INPUT or TEXTAREA it leaves the values the type case leaves when it
\* writes the empty string, and makes the same platform calls (input, then
\* change, on that element); with any other handle it fails with the error a
\* type request carrying a text fails with on that handle, calls nothing and
\* changes no value.
C25_ClearAsType ==
    [][ (reply'.action = "EXECUTE_ACTION" /\ reply'.type = "clear" /\ reply'.refId # NullRef) =>
          LET refId   == reply'.refId
              element == getElement(elementMap, refId)
          IN IF element # NoElement /\ kind[element].tagName \in {"INPUT", "TEXTAREA"}
             THEN LET t == typeCase(Doc, element, refId, "")
                  IN /\ reply'.response.success
                     /\ value' = t.value
                     /\ value'[element] = ""
                     /\ reply'.effects = t.effects
             ELSE LET t == executeAction(Doc, elementMap, "type", refId, "hello", NoElement)
                  IN /\ ~reply'.response.success
                     /\ reply'.response = t.response
                     /\ reply'.effects = <<>>
                     /\ value' = value ]_vars

\* C25 witness: clear has succeeded on a registered INPUT, whose value is
\* empty, while another element keeps the text typed into it.
C25_Witness ==
    /\ reply.action = "EXECUTE_ACTION"
    /\ reply.type = "clear"
    /\ reply.response.success
    /\ \E e \in Elements : /\ elementMap[reply.refId] = e
                            /\ kind[e].tagName = "INPUT"
                            /\ value[e] = ""
    /\ \E e \in Elements : value[e] = "hello"


\* --------------------------------------------------- reading a keypress
\* C26: a keypress action that carries a key makes exactly three platform
\* calls, the dispatch of keydown, then of keypress, then of keyup, each on
\* the element focused when the call is made, or on the body when none is.
C26_KeyTriad ==
    (reply.action = "EXECUTE_ACTION" /\ reply.type = "keypress" /\ reply.text \notin {NoText, ""}) =>
        LET target == IF reply.active = NoElement THEN body ELSE reply.active
        IN /\ Len(reply.effects) = 3
           /\ \A i \in 1..3 : /\ reply.effects[i].op = "dispatchEvent"
                               /\ reply.effects[i].target = target
           /\ <<reply.effects[1].type, reply.effects[2].type, reply.effects[3].type>>
                 = <<"keydown", "keypress", "keyup">>

\* C26 witness: a keypress has gone to a focused element other than the
\* body and other than the element the request's handle names.
C26_Witness ==
    /\ reply.action = "EXECUTE_ACTION"
    /\ reply.type = "keypress"
    /\ reply.response.success
    /\ reply.active \notin {NoElement, body}
    /\ reply.refId \in DOMAIN elementMap
    /\ elementMap[reply.refId] # reply.active
    /\ Len(reply.effects) = 3


\* ------------------------------------------------ reading a kept handle
\* C29: an action through a handle that a client keeps from a capture, made
\* after any number of later captures, resolves to the element the handle
\* named when it was issued or to none (ElementNotFound); its platform calls
\* have no other target.
C29_HandleKeepsElement ==
    (reply.action = "EXECUTE_ACTION" /\ reply.refId \in DOMAIN held) =>
        /\ getElement(elementMap, reply.refId) \in {held[reply.refId], NoElement}
        /\ \A i \in DOMAIN reply.effects : reply.effects[i].target = held[reply.refId]


\* ------------------------------------------------ reading a name's source
\* The names of the interactive nodes and tuples of the capture being
\* answered, each with its element.
HandleNames ==
    IF reply.action = "GET_AX_TREE"
    THEN { <<elementMap[OutputNodes[i].refId], NameOf(OutputNodes[i])>> :
             i \in { j \in DOMAIN OutputNodes : "refId" \in DOMAIN OutputNodes[j] } }
    ELSE IF reply.action = "GET_AX_TREE_COMPACT"
    THEN { <<elementMap[reply.data[i][1]], reply.data[i][3]>> : i \in DOMAIN reply.data }
    ELSE {}

\* The names of the grouping nodes of the nested capture being answered.
GroupNames ==
    IF reply.action = "GET_AX_TREE"
    THEN { NameOf(OutputNodes[i]) :
             i \in { j \in DOMAIN OutputNodes :
                       "refId" \notin DOMAIN OutputNodes[j] /\ OutputNodes[j].role # "tree" } }
    ELSE {}

C30_OnePort ==
    /\ Cardinality({p \in PortIds : ports[p] = "open"}) <= 1
    /\ pc # "connectNative" => ~isConnecting

\* C30 witness: a port is open while a reconnection timer is still pending,
\* whose call of connectNativeHost will find the port.
C30_Witness ==
    /\ pc = "idle"
    /\ nativePort # NoPort
    /\ ports[nativePort] = "open"
    /\ BagCardinality(timers) >= 1
    /\ failures = 0
    /\ connectionAttempts = 0


\* ------------------------------------------------- reading the backoff
\* C27: reconnection uses exponential backoff: a step that sets a
\* reconnection timer after n consecutive disconnects or failed attempts
\* since the last connection sets it to min(1000 * 2^n, 30000) ms, and the
\* attempt counter goes back only in the step that makes a connection.
C27_ExponentialBackoff ==
    [][ /\ BagCardinality(timers') > BagCardinality(timers) =>
              timers' = timers (+) SetToBag({Min(1000 * 2^failures', 30000)})
        /\ connectionAttempts' < connectionAttempts =>
              (nativePort = NoPort /\ nativePort' # NoPort) ]_vars

\* C28: the attempt counter never exceeds MAX_CONNECTION_ATTEMPTS, and once
\* it has reached it no reconnection is scheduled and none is made.
C28_AttemptsBounded ==
    [][ /\ connectionAttempts' <= 10
        /\ (pc = "idle" /\ connectionAttempts >= 10) =>
              /\ BagCardinality(timers') <= BagCardinality(timers)
              /\ pc' # "connectNative" ]_vars


C22_InterfaceForwarded ==
    \A id \in RequestIds :
        (requests[id].at = "answered" /\ requests[id].action \in InterfaceActions) =>
            \/ posted[id] = << Result(id, ContentResponse(requests[id].action)) >>
            \/ posted[id][1] \in { Error(id, <<"No active tab found">>),
                                   Error(id, <<"Could not establish connection">>) }


\* --------------------------------------------------- reading a page text
\* C35: GET_PAGE_TEXT answers truncated = true exactly when the cleaned text
\* of the page is longer than maxLength (8000 when the request gives none),
\* the text it answers is never longer than maxLength, and a text that is
\* not truncated is answered in full.
C35_TextWithinMaxLength ==
    (reply.action = "GET_PAGE_TEXT" /\ reply.sent[1].success) =>
        LET maxLength == IF reply.maxLength \in {NoMaxLength, 0} THEN 8000 ELSE reply.maxLength
            data == reply.sent[1].data
        IN /\ data.truncated = (Len(reply.fullText) > maxLength)
           /\ Len(data.text) <= maxLength
           /\ ~data.truncated => data.text = reply.fullText


\* ------------------------------------------------------ reading the leaves
\* C33: in the result of a nested capture every node without a handle, a
\* grouping node or the synthetic root, has at least one child: every leaf
\* of the tree is an interactive node with a handle.
C33_LeavesCarryHandles ==
    (reply.action = "GET_AX_TREE" /\ reply.data # [role |-> "null"]) =>
        \A i \in DOMAIN AllNodes(<<reply.data>>) :
            LET n == AllNodes(<<reply.data>>)[i]
            IN "refId" \notin DOMAIN n =>
                  /\ "children" \in DOMAIN n
                  /\ Len(n.children) >= 1

\* C33 witness: the result of a nested capture is a grouping node whose one
\* child is a leaf with a handle.
C33_Witness ==
    /\ reply.action = "GET_AX_TREE"
    /\ reply.data # [role |-> "null"]
    /\ "refId" \notin DOMAIN reply.data
    /\ reply.data.role # "tree"
    /\ Len(reply.data.children) = 1
    /\ "refId" \in DOMAIN reply.data.children[1]
    /\ "children" \notin DOMAIN reply.data.children[1]

\* C34: within one capture the registry is injective and matches the output
\* exactly: no element is bound to two handles, every registered handle is
\* on exactly one output node or tuple, and the number of handle-bearing
\* output entries equals the registry size and the final counter value.
C34_RegistryMatchesOutput ==
    reply.action \in {"GET_AX_TREE", "GET_AX_TREE_COMPACT"} =>
        /\ \A r1, r2 \in DOMAIN elementMap :
               elementMap[r1] = elementMap[r2] => r1 = r2
        /\ \A r \in DOMAIN elementMap :
               Cardinality({i \in DOMAIN OutputHandles : OutputHandles[i] = r}) = 1
        /\ \A i \in DOMAIN OutputHandles : OutputHandles[i] \in DOMAIN elementMap
        /\ Len(OutputHandles) = Cardinality(DOMAIN elementMap)
        /\ Len(OutputHandles) = counter

\* C34 witness: a capture that registered two elements and put both handles
\* in its output.
C34_Witness ==
    /\ reply.action \in {"GET_AX_TREE", "GET_AX_TREE_COMPACT"}
    /\ Len(OutputHandles) = 2
    /\ counter = 2
    /\ Cardinality(DOMAIN elementMap) = 2

\* C31: at most one heartbeat interval timer is active at any time, however
\* many times the connection to the native host is lost and made again.
C31_OneInterval == heartbeat <= 1

\* C32: the reply to a relayed request is posted only on the native port
\* over which the request arrived; when that port has disconnected and a new
\* one was connected while the request was awaited, the reply is not posted
\* on the new port.
C32_ReplyOnArrivalPort ==
    \A id \in RequestIds :
        requests[id].at = "answered" => requests[id].via = requests[id].port

====
